---------------------------- MODULE Spec2Model ----------------------------
(***************************************************************************)
(* A model of the configuration package: Configuration                     *)
(* (simple_configuration.py) and its subclass AdvancedConfiguration        *)
(* (advanced_configuration.py).                                            *)
(*                                                                         *)
(* One configuration instance is modelled.  Python strings are sequences   *)
(* of one-character strings, so that the regular expression of the key     *)
(* grammar and str.startswith are computed character by character.  A      *)
(* nested key ("a.b") is kept as the sequence of its segments; PathStr     *)
(* gives the Python string.  Python values are tagged records.             *)
(***************************************************************************)
EXTENDS Integers, Sequences, FiniteSets, TLC

VARIABLES
    cls,            \* the class of the instance
    _data,          \* self._data : the tree
    _merge_order,   \* self._merge_order
    _sources,       \* self._sources : nested key -> identifier (list of them
                    \* in AdvancedConfiguration)
    _locked,        \* self._locked
    pending_lock,   \* self.__pending_lock
    _actions,       \* AdvancedConfiguration._actions  (class attribute)
    _modifiers,     \* AdvancedConfiguration._modifiers (class attribute)
    _ordering,      \* AdvancedConfiguration._ordering  (class attribute)
    set_order,      \* the order in which the process iterates a set of nested
                    \* keys (it follows from the hash seed of the process)
    last,           \* history: the last call, its arguments and its outcome
    completed,      \* history: number of merge calls that returned, on the
                    \* instance that config names
    ops,            \* history: number of calls made so far
    passed          \* the lists in the layers that the caller passed: a leaf
                    \* of the tree is the object of the layer (dest[key] =
                    \* value), so each is held with what it was when it was
                    \* passed, what it is now, and the nested key at which
                    \* the tree holds it

vars == <<cls, _data, _merge_order, _sources, _locked, pending_lock,
          _actions, _modifiers, _ordering, set_order, last, completed, ops,
          passed>>

-----------------------------------------------------------------------------
(* Python values *)

None == [t |-> "None"]
PyInt(n) == [t |-> "int", v |-> n]
PyBool(b) == [t |-> "bool", v |-> b]
PyList(s) == [t |-> "list", v |-> s]
PyStr(s) == [t |-> "str", v |-> s]
\* A dict of the tree: a function from keys to values.
Dict(f) == [t |-> "dict", v |-> f]
\* A dict handed in by the caller: its items in insertion order.
Layer(items) == [t |-> "dict", items |-> items]
Item(k, v) == [key |-> k, val |-> v]

IsDict(x) == x.t = "dict"

\* isinstance(x, (int, float)): bool is a subclass of int, True is 1 and
\* False is 0
IsNumber(x) == x.t \in {"int", "bool"}
NumberOf(x) == IF x.t = "bool" THEN (IF x.v THEN 1 ELSE 0) ELSE x.v
IsNone(x) == x.t = "None"

\* Code points of the characters the model uses (Python compares strings by
\* code point).
CodePoint(c) ==
    CASE c = "!" -> 33 [] c = "#" -> 35 [] c = "$" -> 36 [] c = "+" -> 43
      [] c = "-" -> 45 [] c = "." -> 46 [] c = "0" -> 48 [] c = "1" -> 49
      [] c = "<" -> 60 [] c = "=" -> 61 [] c = "?" -> 63 [] c = "_" -> 95
      [] c = "a" -> 97 [] c = "b" -> 98 [] c = "c" -> 99 [] c = "d" -> 100
      [] c = "e" -> 101

\* The characters of the model that the class \w matches.
WordChars == {"0", "1", "_", "a", "b", "c", "d", "e"}

RECURSIVE StrLess(_, _)
StrLess(s1, s2) ==
    IF s2 = <<>> THEN FALSE
    ELSE IF s1 = <<>> THEN TRUE
    ELSE IF Head(s1) # Head(s2) THEN CodePoint(Head(s1)) < CodePoint(Head(s2))
    ELSE StrLess(Tail(s1), Tail(s2))

\* list < list on lists of integers
RECURSIVE IntListLess(_, _)
IntListLess(s1, s2) ==
    IF s2 = <<>> THEN FALSE
    ELSE IF s1 = <<>> THEN TRUE
    ELSE IF Head(s1) # Head(s2) THEN Head(s1) < Head(s2)
    ELSE IntListLess(Tail(s1), Tail(s2))

\* str.startswith
StartsWith(s, prefix) ==
    /\ Len(prefix) <= Len(s)
    /\ SubSeq(s, 1, Len(prefix)) = prefix

\* separator.join(parts), with the default separator
RECURSIVE PathStr(_)
PathStr(parts) ==
    IF parts = <<>> THEN <<>>
    ELSE IF Len(parts) = 1 THEN parts[1]
    ELSE parts[1] \o <<".">> \o PathStr(Tail(parts))

\* list.index
RECURSIVE IndexOf(_, _, _)
IndexOf(seq, x, i) ==
    IF i > Len(seq) THEN 0
    ELSE IF seq[i] = x THEN i
    ELSE IndexOf(seq, x, i + 1)

InSeq(x, seq) == \E i \in 1..Len(seq) : seq[i] = x

-----------------------------------------------------------------------------
(* The tree *)

Missing == [t |-> "missing"]

\* dict.get(key): None when the key is absent
DictGet(d, k) == IF k \in DOMAIN d.v THEN d.v[k] ELSE None

DictSet(d, k, x) ==
    Dict([j \in (DOMAIN d.v) \cup {k} |-> IF j = k THEN x ELSE d.v[j]])

\* The object the segments lead to from root, Missing if they lead nowhere.
RECURSIVE Lookup(_, _)
Lookup(root, parts) ==
    IF parts = <<>> THEN root
    ELSE IF ~IsDict(root) THEN Missing
    ELSE IF Head(parts) \notin DOMAIN root.v THEN Missing
    ELSE Lookup(root.v[Head(parts)], Tail(parts))

\* The tree with the object at the segments replaced (the dicts on the way
\* are mutated in place in the code; here the tree is rebuilt around them).
RECURSIVE Update(_, _, _)
Update(root, parts, x) ==
    IF parts = <<>> THEN x
    ELSE DictSet(root, Head(parts),
                 Update(root.v[Head(parts)], Tail(parts), x))

\* The keys of a tree dict in increasing order.
RECURSIVE SortedKeys(_)
SortedKeys(S) ==
    IF S = {} THEN <<>>
    ELSE LET m == CHOOSE k \in S : \A j \in S \ {k} : StrLess(k, j)
         IN <<m>> \o SortedKeys(S \ {m})

\* The items of a dict, in iteration order.  The order of a tree dict is
\* not kept by the model: its keys are taken in increasing order.
Items(d) ==
    IF "items" \in DOMAIN d THEN d.items
    ELSE LET ks == SortedKeys(DOMAIN d.v)
         IN [i \in 1..Len(ks) |-> Item(ks[i], d.v[ks[i]])]

\* source[key]
ValueOf(d, k) ==
    LET its == Items(d)
    IN its[CHOOSE i \in 1..Len(its) : its[i].key = k].val

-----------------------------------------------------------------------------
(* Actions and modifiers (advanced_configuration.py) *)

\* What a call of an action function gives: the exception it raised (""
\* when none), the value it returned, and the object that was passed as
\* orig as the call left it (list.remove works in place).
Returned(val, orig) == [err |-> "", val |-> val, orig |-> orig]
Raised(err, orig) == [err |-> err, val |-> None, orig |-> orig]

_add(orig, new) ==
    IF IsNumber(orig) /\ IsNumber(new)
        THEN Returned(PyInt(NumberOf(orig) + NumberOf(new)), orig)
    ELSE IF orig.t = "list" /\ new.t = "list"
        THEN Returned(PyList(orig.v \o new.v), orig)
    ELSE IF orig.t = "str" /\ new.t = "str"
        THEN Returned(PyStr(orig.v \o new.v), orig)
    ELSE Raised("TypeError", orig)

\* A variant of _copy that returns the incoming value
CopyIncoming(orig, new) == Returned(new, orig)

_copy(orig, new) == Returned(orig, orig)

\* list.remove(x) on a list of integers: the list without the first x
ListRemove(seq, i) == SubSeq(seq, 1, i - 1) \o SubSeq(seq, i + 1, Len(seq))

\* for x in new: orig.remove(x)
RECURSIVE RemoveEach(_, _)
RemoveEach(seq, xs) ==
    IF xs = <<>> THEN Returned(PyList(seq), PyList(seq))
    ELSE IF IndexOf(seq, Head(xs), 1) = 0 THEN Raised("ValueError", PyList(seq))
    ELSE RemoveEach(ListRemove(seq, IndexOf(seq, Head(xs), 1)), Tail(xs))

\* str.replace(new, ''): every occurrence of new removed, left to right
\* A variant of str.replace(sub, '') that removes the first occurrence only
StrRemoveFirst(s, sub) ==
    IF sub = <<>> \/ s = <<>> THEN s
    ELSE IF \E i \in 1..Len(s) : StartsWith(SubSeq(s, i, Len(s)), sub)
        THEN LET i == CHOOSE i \in 1..Len(s) :
                        /\ StartsWith(SubSeq(s, i, Len(s)), sub)
                        /\ \A j \in 1..(i - 1) : ~StartsWith(SubSeq(s, j, Len(s)), sub)
             IN SubSeq(s, 1, i - 1) \o SubSeq(s, i + Len(sub), Len(s))
    ELSE s

RECURSIVE StrRemoveAll(_, _)
StrRemoveAll(s, sub) ==
    IF sub = <<>> \/ s = <<>> THEN s
    ELSE IF StartsWith(s, sub)
        THEN StrRemoveAll(SubSeq(s, Len(sub) + 1, Len(s)), sub)
    ELSE <<Head(s)>> \o StrRemoveAll(Tail(s), sub)

_subtract(orig, new) ==
    IF orig.t = "list" THEN
        IF new.t = "list" THEN RemoveEach(orig.v, new.v)
        ELSE IF IsNumber(new) THEN RemoveEach(orig.v, <<NumberOf(new)>>)
        ELSE Raised("ValueError", orig)
    ELSE IF IsNumber(orig) THEN
        IF IsNumber(new)
            THEN Returned(PyInt(NumberOf(orig) - NumberOf(new)), orig)
        ELSE Raised("TypeError", orig)
    ELSE IF orig.t = "str" THEN
        IF new.t = "str" THEN Returned(PyStr(StrRemoveAll(orig.v, new.v)), orig)
        ELSE Raised("TypeError", orig)
    ELSE Returned(orig, orig)

\* A variant of _exists that tests the truth of the value
ExistsByTruth(action, key, orig, new) ==
    ~IsNone(orig) /\ orig \notin {PyInt(0), PyBool(FALSE), PyList(<<>>), PyStr(<<>>)}

_exists(action, key, orig, new) == ~IsNone(orig)

_not_exists(action, key, orig, new) == IsNone(orig)

\* method(existing_value, new_value), method a function of the action table
CallAction(method, orig, new) ==
    CASE method = "_add" -> _add(orig, new)
      [] method = "_subtract" -> _subtract(orig, new)
      [] method = "_copy" -> _copy(orig, new)

\* modifier(action, key, existing_value, new_value)
CallModifier(modifier, action, key, orig, new) ==
    CASE modifier = "_exists" -> _exists(action, key, orig, new)
      [] modifier = "_not_exists" -> _not_exists(action, key, orig, new)

\* The class attributes as the class statement leaves them.
DefaultActions == ("+" :> "_add") @@ ("-" :> "_subtract") @@ ("=" :> "_copy")
DefaultModifiers == ("!" :> "_not_exists") @@ ("?" :> "_exists")
DefaultOrdering == <<"=", "+", "-", "!", "?">>
lock_symbol == "#"

-----------------------------------------------------------------------------
(* The key grammar *)

\* recompile(): the pattern ^([mods]+)?([acts])?(#)?(\w+)$, kept as the two
\* character classes and the lock symbol.
recompile(modifiers, actions) ==
    [mods |-> DOMAIN modifiers, acts |-> DOMAIN actions, lock |-> lock_symbol]

NoMatch == [key |-> <<>>, nomatch |-> TRUE]

SeparatedKey(key, modifiers, action, lock, true_key) ==
    [key |-> key, modifiers |-> modifiers, action |-> action, lock |-> lock,
     true_key |-> true_key]

\* The ways the pattern matches the whole key: m modifier characters, then
\* a action characters (0 or 1), then l lock symbols (0 or 1), then a
\* non-empty word.
\* The part of the key that the groups of the pattern span: the pattern ends
\* with $, which matches at the end of the string and before a newline that
\* ends the string
NewLine == "\n"
Matched(key) ==
    IF key # <<>> /\ key[Len(key)] = NewLine THEN SubSeq(key, 1, Len(key) - 1)
    ELSE key

Splits(pattern, key) ==
    {s \in (0..Len(key)) \X {0, 1} \X {0, 1} :
        /\ s[1] + s[2] + s[3] < Len(key)
        /\ \A i \in 1..s[1] : key[i] \in pattern.mods
        /\ s[2] = 1 => key[s[1] + 1] \in pattern.acts
        /\ s[3] = 1 => key[s[1] + s[2] + 1] = pattern.lock
        /\ \A i \in (s[1] + s[2] + s[3] + 1)..Len(key) : key[i] \in WordChars}

\* The match the regular expression engine finds first: the quantifiers are
\* greedy, from left to right.
Preferred(S) ==
    CHOOSE s \in S : \A u \in S \ {s} :
        \/ s[1] > u[1]
        \/ s[1] = u[1] /\ s[2] > u[2]
        \/ s[1] = u[1] /\ s[2] = u[2] /\ s[3] > u[3]

\* _separate(key): the SeparatedKey, NoMatch where the code raises
\* ConfigurationError.  An unmatched group is None in the code; it is the
\* empty string here (both are false).
_separate(pattern, key) ==
    LET S == Splits(pattern, Matched(key))
    IN IF S = {} THEN NoMatch
       ELSE LET s == Preferred(S)
            IN SeparatedKey(key,
                    SubSeq(key, 1, s[1]),
                    IF s[2] = 1 THEN key[s[1] + 1] ELSE "",
                    IF s[3] = 1 THEN key[s[1] + s[2] + 1] ELSE "",
                    SubSeq(key, s[1] + s[2] + s[3] + 1, Len(Matched(key))))

\* _sort_order(separated_key) without the lock: list.index raises ValueError
\* (not the IndexError the code catches) for a symbol that is not in the
\* ordering; the indexes are 0-based in the code.
SortRaises(ordering, sk) ==
    \/ \E i \in 1..Len(sk.modifiers) : ~InSeq(sk.modifiers[i], ordering)
    \/ sk.action # "" /\ ~InSeq(sk.action, ordering)

mod_indexes(ordering, sk) ==
    [i \in 1..Len(sk.modifiers) |-> IndexOf(ordering, sk.modifiers[i], 1) - 1]

action_index(ordering, sk) ==
    IF sk.action = "" THEN 0 ELSE IndexOf(ordering, sk.action, 1) - 1

\* tuple < tuple on the values of _sort_order (true_key, lock, action_index,
\* mod_indexes), for two keys whose locks are equal when their true keys are
_sort_order_less(ordering, k1, k2) ==
    IF k1.true_key # k2.true_key THEN StrLess(k1.true_key, k2.true_key)
    ELSE IF action_index(ordering, k1) # action_index(ordering, k2)
        THEN action_index(ordering, k1) < action_index(ordering, k2)
    ELSE IntListLess(mod_indexes(ordering, k1), mod_indexes(ordering, k2))

\* Two keys whose comparison raises TypeError: the same true key, and the
\* lock None in one and '#' in the other (None < '#' is an error).
Incomparable(k1, k2) ==
    /\ k1.true_key = k2.true_key
    /\ k1.lock # k2.lock

\* sorted(split, key=self._sort_order): a stable sort
RECURSIVE sorted(_, _)
sorted(ordering, split) ==
    IF split = <<>> THEN <<>>
    ELSE LET n == Len(split)
             front == sorted(ordering, SubSeq(split, 1, n - 1))
             x == split[n]
             \* x goes behind every element that is not greater than it
             k == Cardinality({i \in 1..Len(front) :
                     \E j \in i..Len(front) :
                        ~_sort_order_less(ordering, x, front[j])})
         IN SubSeq(front, 1, k) \o <<x>> \o SubSeq(front, k + 1, Len(front))

-----------------------------------------------------------------------------
(* The provenance index (self._sources) *)

\* A variant of RemoveLost that pops nothing
KeepLost(sources, key_path) == sources

\* removed = {key for key in self._sources if key.startswith(key_path)};
\* self._sources.pop(key) for each: the index without them
RemoveLost(sources, key_path) ==
    [k \in {j \in DOMAIN sources :
                ~StartsWith(PathStr(j), PathStr(key_path))} |-> sources[k]]

\* self._sources[key_path] = value
SourcesSet(sources, key_path, value) ==
    [k \in (DOMAIN sources) \cup {key_path} |->
        IF k = key_path THEN value ELSE sources[k]]

\* A variant of TrackSource that looks at the last element only:
\* if not sources or sources[-1] != name: sources.append(name)
TrackSourceUnlessLast(sources, key_path, name) ==
    SourcesSet(sources, key_path,
        IF key_path \in DOMAIN sources
        THEN IF sources[key_path] # <<>>
                /\ sources[key_path][Len(sources[key_path])] = name
             THEN sources[key_path]
             ELSE Append(sources[key_path], name)
        ELSE <<name>>)

\* sources = self._sources.setdefault(key_path, []);
\* if name not in sources: sources.append(name)
TrackSource(sources, key_path, name) ==
    LET list == IF key_path \in DOMAIN sources THEN sources[key_path] ELSE <<>>
    IN SourcesSet(sources, key_path,
                  IF InSeq(name, list) THEN list ELSE Append(list, name))

-----------------------------------------------------------------------------
(* _merge *)

\* The part of the instance that _merge works on, the exception that ended
\* it ("" when none), and the history of the keys it went through.
Snapshot(r) == [data |-> r.data, sources |-> r.sources, pending |-> r.pending]

\* History: one round of the loop of _merge: the key, its nested key, the
\* value found in the destination, the value of the layer, how the round
\* ended ("ok", "skipped" or the exception), the instance before and after
\* the round, and the identifier of the merge.
Round(name, sk, key_path, existing, new, result, pre, post) ==
    [name |-> name, sk |-> sk, key_path |-> key_path, existing |-> existing, new |-> new,
     result |-> result, pre |-> pre, post |-> Snapshot(post)]

Logged(r, round) == [r EXCEPT !.trace = Append(@, round)]

Raise(r, err) == [r EXCEPT !.err = err]

\* _apply_modifiers: false as soon as one modifier returns false
_apply_modifiers(modifiers, sk, existing_value, new_value) ==
    \A i \in 1..Len(sk.modifiers) :
        CallModifier(modifiers[sk.modifiers[i]], sk.action, sk.true_key,
                     existing_value, new_value)

\* node = dest.setdefault(key, {})
SetDefault(data, path, key) ==
    IF key \in DOMAIN Lookup(data, path).v THEN data
    ELSE Update(data, path \o <<key>>, Dict(<<>>))

\* A variant of WriteLeaf without lines 373-374: the sources of an
\* overridden key are kept
WriteLeafKeepingSources(r, sk, key_path, existing_value, new_value) ==
    [r EXCEPT !.data = Update(r.data, key_path, new_value),
              !.sources = IF IsDict(existing_value)
                          THEN RemoveLost(r.sources, key_path) ELSE r.sources]

\* Lines 360-374 of AdvancedConfiguration._merge: the leaf is written, the
\* sources lost with a replaced dict are removed, and a key without action
\* starts its sources afresh.
WriteLeaf(r, sk, key_path, existing_value, new_value) ==
    LET lost == IF IsDict(existing_value)
                THEN RemoveLost(r.sources, key_path) ELSE r.sources
    IN [r EXCEPT !.data = Update(r.data, key_path, new_value),
                 !.sources = IF sk.action = ""
                             THEN SourcesSet(lost, key_path, <<>>) ELSE lost]

\* Lines 376-385: the lock is staged and the modification is tracked.
LockAndTrack(r, sk, key_path, key_modified, name) ==
    LET staged == IF sk.lock # "" THEN r.pending \cup {key_path} ELSE r.pending
    IN [r EXCEPT !.pending = staged,
                 !.sources = IF key_modified \/ sk.lock # ""
                             THEN TrackSource(r.sources, key_path, name)
                             ELSE r.sources]

\* The round that ended with the exception err
Failed(name, sk, key_path, existing_value, value, pre, r, err) ==
    Raise(Logged(r, Round(name, sk, key_path, existing_value, value, err,
                          pre, r)), err)

\* The end of a round of AdvancedConfiguration._merge: r2 is the instance
\* after the dict was merged or the leaf written.  The exception of the
\* nested _merge ends the round.
Finish(name, sk, key_path, existing_value, value, pre, r2, key_modified) ==
    IF r2.err # ""
        THEN Failed(name, sk, key_path, existing_value, value, pre, r2, r2.err)
    ELSE Logged(LockAndTrack(r2, sk, key_path, key_modified, name),
                Round(name, sk, key_path, existing_value, value, "ok", pre,
                      LockAndTrack(r2, sk, key_path, key_modified, name)))

\* The tree after an action that worked on the list of the tree in place
InPlace(r, key_path, existing_value, orig) ==
    IF orig # existing_value
    THEN [r EXCEPT !.data = Update(r.data, key_path, orig)]
    ELSE r

RECURSIVE _merge(_, _, _, _)
RECURSIVE AdvancedRounds(_, _, _, _, _, _)
RECURSIVE SimpleRounds(_, _, _, _, _)

\* The rounds of the loop of AdvancedConfiguration._merge (lines 337-385)
\* are taken in four steps.  env holds what a round reads and does not
\* change: the class, self._locked, the class tables and the identifier;
\* pre is the instance before the round.

\* A variant of Store in which the lock symbol of a branch locks the keys of
\* the branch at once, before they are merged
StoreLockingAtOnce(env, r1, sk, path, key_path, existing_value, value, called, pre) ==
    IF IsDict(called.val) THEN
        Finish(env.name, sk, key_path, existing_value, value, pre,
               _merge([env EXCEPT !.locked =
                          IF sk.lock = "" THEN @
                          ELSE @ \cup {key_path \o <<called.val.items[n].key>> :
                                          n \in 1..Len(called.val.items)}],
                      [r1 EXCEPT !.data = SetDefault(r1.data, path, sk.true_key)],
                      called.val, key_path),
               sk.action # "")
    ELSE
        Finish(env.name, sk, key_path, existing_value, value, pre,
               WriteLeaf(r1, sk, key_path, existing_value, called.val),
               TRUE)

\* Lines 357-385: a dict is merged into the node of the key, anything else
\* is written as a leaf; then the lock is staged and the sources tracked.
\* called is what the action gave, r1 the instance after it.
Store(env, r1, sk, path, key_path, existing_value, value, called, pre) ==
    IF IsDict(called.val) THEN
        Finish(env.name, sk, key_path, existing_value, value, pre,
               _merge(env,
                      [r1 EXCEPT !.data = SetDefault(r1.data, path, sk.true_key)],
                      called.val, key_path),
               sk.action # "")
    ELSE
        Finish(env.name, sk, key_path, existing_value, value, pre,
               WriteLeaf(r1, sk, key_path, existing_value, called.val),
               TRUE)

\* Lines 348-355: the action is called on the existing and the new value.
\* A list that the action changed in place is the one of the tree.
Act(env, r, sk, path, key_path, existing_value, value, called, pre) ==
    IF called.err # "" THEN
        Failed(env.name, sk, key_path, existing_value, value, pre,
               InPlace(r, key_path, existing_value, called.orig), called.err)
    ELSE Store(env, InPlace(r, key_path, existing_value, called.orig),
               sk, path, key_path, existing_value, value, called, pre)

\* Lines 345-346: a key whose modifiers do not all hold is passed over.
\* A variant of the modifier test that stages the lock of a skipped key
GateStagingLock(env, r, sk, path, key_path, existing_value, value, pre) ==
    IF sk.modifiers # <<>>
       /\ ~_apply_modifiers(env.modifiers, sk, existing_value, value)
        THEN Logged(LockAndTrack(r, sk, key_path, FALSE, env.name),
                    Round(env.name, sk, key_path, existing_value, value,
                          "skipped", pre, LockAndTrack(r, sk, key_path, FALSE, env.name)))
    ELSE Act(env, r, sk, path, key_path, existing_value, value,
             IF sk.action # ""
             THEN CallAction(env.actions[sk.action], existing_value, value)
             ELSE Returned(value, existing_value),
             pre)

Gate(env, r, sk, path, key_path, existing_value, value, pre) ==
    IF sk.modifiers # <<>>
       /\ ~_apply_modifiers(env.modifiers, sk, existing_value, value)
        THEN Logged(r, Round(env.name, sk, key_path, existing_value, value,
                             "skipped", pre, r))
    ELSE Act(env, r, sk, path, key_path, existing_value, value,
             IF sk.action # ""
             THEN CallAction(env.actions[sk.action], existing_value, value)
             ELSE Returned(value, existing_value),
             pre)

\* Lines 338-343: the lock of the nested key is checked, and the values of
\* the key are read from the destination (dest.get fails when dest is the
\* leaf that setdefault returned) and from the source.
Check(env, r, source, sk, path, key_path) ==
    IF key_path \in env.locked
        THEN Failed(env.name, sk, key_path, None, None, Snapshot(r), r, "LockError")
    ELSE IF ~IsDict(Lookup(r.data, path))
        THEN Failed(env.name, sk, key_path, None, None, Snapshot(r), r,
                    "AttributeError")
    ELSE Gate(env, r, sk, path, key_path,
              DictGet(Lookup(r.data, path), sk.true_key),
              ValueOf(source, sk.key), Snapshot(r))

AdvancedRound(env, r, source, sk, path) ==
    Check(env, r, source, sk, path, path \o <<sk.true_key>>)

AdvancedRounds(env, r, source, ordered, i, path) ==
    IF i > Len(ordered) THEN r
    ELSE LET r1 == AdvancedRound(env, r, source, ordered[i], path)
         IN IF r1.err # "" THEN r1
            ELSE AdvancedRounds(env, r1, source, ordered, i + 1, path)

\* AdvancedConfiguration._merge(source, dest, name, path), dest being the
\* object at path
\* The parsed keys that matched, in their order
RECURSIVE Matching(_)
Matching(split) ==
    IF split = <<>> THEN <<>>
    ELSE IF Head(split) = NoMatch THEN Matching(Tail(split))
    ELSE <<Head(split)>> \o Matching(Tail(split))

\* A variant of _merge that parses a key only when its turn comes: the keys
\* that match are applied before the error of a key that does not
MergeParsingLate(env, r, source, path) ==
    LET items == Items(source)
        split == [i \in 1..Len(items) |-> _separate(env.pattern, items[i].key)]
    IN IF \E i \in 1..Len(split) : split[i] = NoMatch
          THEN Raise(AdvancedRounds(env, r, source,
                                    sorted(env.ordering,
                                           Matching(split)),
                                    1, path),
                     "ConfigurationError")
       ELSE AdvancedRounds(env, r, source, sorted(env.ordering, split), 1, path)

Advanced_merge(env, r, source, path) ==
    LET items == Items(source)
        split == [i \in 1..Len(items) |-> _separate(env.pattern, items[i].key)]
    IN IF \E i \in 1..Len(split) : split[i] = NoMatch
          THEN Raise(r, "ConfigurationError")
       ELSE IF \E i \in 1..Len(split) : SortRaises(env.ordering, split[i])
          THEN Raise(r, "ValueError")
       ELSE IF \E i, j \in 1..Len(split) : Incomparable(split[i], split[j])
          THEN Raise(r, "TypeError")
       ELSE AdvancedRounds(env, r, source, sorted(env.ordering, split), 1, path)

\* removed = {key for key in self._sources if key.startswith(key_path)}
Removed(sources, key_path) ==
    {k \in DOMAIN sources : StartsWith(PathStr(k), PathStr(key_path))}

\* The element of a set of nested keys that its iteration gives last
LastOf(S, order) ==
    CHOOSE k \in S : \A j \in S \ {k} : IndexOf(order, j, 1) < IndexOf(order, k, 1)

\* The variable key after lines 272-275 of Configuration._merge: the loop
\* "for key in removed" binds it anew, and leaves it the nested key that
\* was removed last
KeyAfterRemoval(sources, key, key_path, existing_value, order) ==
    IF IsDict(existing_value) /\ Removed(sources, key_path) # {}
    THEN PathStr(LastOf(Removed(sources, key_path), order))
    ELSE key

\* Lines 271-278 of Configuration._merge: the sources lost with a replaced
\* dict are removed, value is written under key (dest[key] = value, dest
\* being the dict at path) and the identifier is the source of key_path.
SimpleWriteLeaf(r, path, key, key_path, existing_value, value, name) ==
    [r EXCEPT !.data = Update(r.data, path \o <<key>>, value),
              !.sources = SourcesSet(IF IsDict(existing_value)
                                     THEN RemoveLost(r.sources, key_path)
                                     ELSE r.sources,
                                     key_path, name)]

\* The end of a round of Configuration._merge
SimpleFinish(name, sk, key_path, existing_value, value, pre, r2) ==
    IF r2.err # ""
        THEN Failed(name, sk, key_path, existing_value, value, pre, r2, r2.err)
    ELSE Logged(r2, Round(name, sk, key_path, existing_value, value, "ok",
                          pre, r2))

\* One round of the loop of Configuration._merge (lines 265-278);
\* dest.setdefault and dest.get fail when dest is the leaf that setdefault
\* returned.
SimpleStore(env, r, key, value, path, key_path, sk) ==
    IF ~IsDict(Lookup(r.data, path))
        THEN Failed(env.name, sk, key_path, None, value, Snapshot(r), r,
                    "AttributeError")
    ELSE IF IsDict(value) THEN
        SimpleFinish(env.name, sk, key_path,
                     DictGet(Lookup(r.data, path), key), value, Snapshot(r),
                     _merge(env, [r EXCEPT !.data = SetDefault(r.data, path, key)],
                            value, key_path))
    ELSE
        SimpleFinish(env.name, sk, key_path,
                     DictGet(Lookup(r.data, path), key), value, Snapshot(r),
                     SimpleWriteLeaf(r, path,
                         KeyAfterRemoval(r.sources, key, key_path,
                                         DictGet(Lookup(r.data, path), key),
                                         env.set_order),
                         key_path, DictGet(Lookup(r.data, path), key),
                         value, env.name))

SimpleRound(env, r, item, path) ==
    SimpleStore(env, r, item.key, item.val, path, path \o <<item.key>>,
                SeparatedKey(item.key, <<>>, "", "", item.key))

SimpleRounds(env, r, items, i, path) ==
    IF i > Len(items) THEN r
    ELSE LET r1 == SimpleRound(env, r, items[i], path)
         IN IF r1.err # "" THEN r1
            ELSE SimpleRounds(env, r1, items, i + 1, path)

\* Configuration._merge(source, dest, name, path)
Simple_merge(env, r, source, path) ==
    SimpleRounds(env, r, Items(source), 1, path)

\* self._merge: the method of the class of the instance
_merge(env, r, source, path) ==
    IF env.cls = "AdvancedConfiguration" THEN Advanced_merge(env, r, source, path)
    ELSE Simple_merge(env, r, source, path)

-----------------------------------------------------------------------------
(* The methods.  An instance is the record of its attributes. *)

\* Configuration.__init__ / AdvancedConfiguration.__init__ without data
NewInstance(class) ==
    [cls |-> class, data |-> Dict(<<>>), merge_order |-> <<>>,
     sources |-> <<>>, locked |-> {}, pending |-> {}]

\* A name that is not given (None); a name that is false is treated alike.
NoName == ""

\* identifier = name or len(self._merge_order); the count is shown in
\* decimal, which no name of the model is
Identifier(name, merge_order) ==
    IF name = NoName THEN ToString(Len(merge_order)) ELSE name

\* What a call gives: the instance as it leaves it, the exception raised
\* ("" when none) and the rounds of _merge it went through.
Outcome(self, err, trace) == [self |-> self, err |-> err, trace |-> trace]

\* The instance with what _merge left in r
Merged(self, r) ==
    [self EXCEPT !.data = r.data, !.sources = r.sources, !.pending = r.pending]

\* self._merge_order.append(identifier), which an exception of _merge
\* leaves out
\* A variant of merge that records the identifier of a call that raised
AppendIdentifierAlways(self, identifier, r) ==
    Outcome([Merged(self, r) EXCEPT !.merge_order = Append(@, identifier)],
            r.err, r.trace)

AppendIdentifier(self, identifier, r) ==
    IF r.err # "" THEN Outcome(Merged(self, r), r.err, r.trace)
    ELSE Outcome([Merged(self, r) EXCEPT !.merge_order = Append(@, identifier)],
                 "", r.trace)

\* Configuration.merge(data, name)
Simple_merge_call(self, env, data, name) ==
    AppendIdentifier(self, Identifier(name, self.merge_order),
        _merge([env EXCEPT !.name = Identifier(name, self.merge_order)],
               [data |-> self.data, sources |-> self.sources,
                pending |-> self.pending, err |-> "", trace |-> <<>>],
               data, <<>>))

\* self._locked.update(self.__pending_lock); self.__pending_lock = set()
CommitLocks(self) ==
    [self EXCEPT !.locked = self.locked \cup self.pending, !.pending = {}]

\* The two statements that follow super().merge in
\* AdvancedConfiguration.merge, which an exception of it leaves out
AfterSuperMerge(out) ==
    IF out.err # "" THEN out
    ELSE Outcome(CommitLocks(out.self), "", out.trace)

\* AdvancedConfiguration.merge(data, name)
Advanced_merge_call(self, env, data, name) ==
    AfterSuperMerge(Simple_merge_call(self, env, data, name))

\* merge(data, name) of the class of the instance; registry holds the class
\* attributes
merge(self, registry, data, name) ==
    LET env == [cls |-> self.cls, locked |-> self.locked,
                actions |-> registry.actions, modifiers |-> registry.modifiers,
                ordering |-> registry.ordering,
                pattern |-> recompile(registry.modifiers, registry.actions),
                set_order |-> registry.set_order,
                name |-> NoName]
    IN IF self.cls = "AdvancedConfiguration"
         THEN Advanced_merge_call(self, env, data, name)
         ELSE Simple_merge_call(self, env, data, name)

\* A variant of _get_locked_key that does not look at the ancestors
ExactLockedKey(locked, parts) == IF parts \in locked THEN parts ELSE <<>>

\* _get_locked_key(key), key given by its segments: the longest locked
\* prefix, None (here the empty sequence) when there is none
RECURSIVE _get_locked_key(_, _)
_get_locked_key(locked, parts) ==
    IF parts = <<>> THEN <<>>
    ELSE IF parts \in locked THEN parts
    ELSE _get_locked_key(locked, SubSeq(parts, 1, Len(parts) - 1))

\* _walk(key): the exception raised on the way to the dict that holds the
\* last segment, "" when it is reached
RECURSIVE _walk(_, _)
_walk(data, parts) ==
    IF Len(parts) <= 1 THEN ""
    ELSE IF ~IsDict(data) THEN "TypeError"
    ELSE IF Head(parts) \notin DOMAIN data.v THEN "KeyError"
    ELSE _walk(data.v[Head(parts)], Tail(parts))

\* Configuration.set(key, value)
Simple_set(self, parts, value) ==
    LET walked == _walk(self.data, parts)
        parent == Lookup(self.data, SubSeq(parts, 1, Len(parts) - 1))
    IN IF walked # "" THEN Outcome(self, walked, <<>>)
       ELSE IF ~IsDict(parent) THEN Outcome(self, "TypeError", <<>>)
       ELSE Outcome([self EXCEPT !.data = Update(self.data, parts, value)],
                    "", <<>>)

\* AdvancedConfiguration.set(key, value)
Advanced_set(self, parts, value) ==
    LET locked == _get_locked_key(self.locked, parts)
    IN IF PathStr(locked) # <<>> THEN Outcome(self, "LockError", <<>>)
       ELSE Simple_set(self, parts, value)

set(self, parts, value) ==
    IF self.cls = "AdvancedConfiguration" THEN Advanced_set(self, parts, value)
    ELSE Simple_set(self, parts, value)

\* lock_key(key)
\* A variant of lock_key that stages the lock for the next merge
LockKeyStaged(self, parts) ==
    Outcome([self EXCEPT !.pending = self.pending \cup {parts}], "", <<>>)

lock_key(self, parts) ==
    Outcome([self EXCEPT !.locked = self.locked \cup {parts}], "", <<>>)

\* is_locked(key)
is_locked(self, parts) == PathStr(_get_locked_key(self.locked, parts)) # <<>>

\* zip(dicts, names or []), which stops at the shorter of the two
zip(dicts, names) ==
    [i \in 1..(IF Len(dicts) < Len(names) THEN Len(dicts) ELSE Len(names)) |->
        [data |-> dicts[i], name |-> names[i]]]

\* zip_longest(dicts, names or [])
zip_longest(dicts, names) ==
    LET n == IF Len(dicts) > Len(names) THEN Len(dicts) ELSE Len(names)
    IN [i \in 1..n |->
          [data |-> IF i <= Len(dicts) THEN dicts[i] ELSE None,
           name |-> IF i <= Len(names) THEN names[i] ELSE NoName]]

\* The history of a call followed by the history of the next one
Then(trace, out) == Outcome(out.self, out.err, trace \o out.trace)

\* The loop of from_dicts: one merge for each pair, until one raises
RECURSIVE MergeEach(_, _, _, _)
MergeEach(out, registry, pairs, i) ==
    IF i > Len(pairs) \/ out.err # "" THEN out
    ELSE IF IsNone(pairs[i].data)
        \* iterating None
        THEN Outcome(out.self,
                     IF out.self.cls = "AdvancedConfiguration"
                     THEN "TypeError" ELSE "AttributeError", out.trace)
    ELSE MergeEach(Then(out.trace,
                        merge(out.self, registry, pairs[i].data, pairs[i].name)),
                   registry, pairs, i + 1)

\* cls.from_dicts(dicts, names)
from_dicts(class, registry, dicts, names) ==
    MergeEach(Outcome(NewInstance(class), "", <<>>), registry,
              zip_longest(dicts, names), 1)

\* The nested keys of the index in increasing order of their strings (the
\* order of the dict is not kept by the model).
RECURSIVE SortedPaths(_)
SortedPaths(S) ==
    IF S = {} THEN <<>>
    ELSE LET m == CHOOSE k \in S :
                    \A j \in S \ {k} : StrLess(PathStr(k), PathStr(j))
         IN <<m>> \o SortedPaths(S \ {m})

RECURSIVE SelectSeq2(_, _)
SelectSeq2(seq, S) ==
    IF seq = <<>> THEN <<>>
    ELSE IF Head(seq) \in S THEN <<Head(seq)>> \o SelectSeq2(Tail(seq), S)
    ELSE SelectSeq2(Tail(seq), S)

\* Configuration.source(key): the entry of the key, or the list of the
\* entries of the nested keys that start with it
source(self, parts) ==
    IF \E k \in DOMAIN self.sources : PathStr(k) = PathStr(parts)
        THEN [found |-> TRUE,
              val |-> self.sources[CHOOSE k \in DOMAIN self.sources :
                                        PathStr(k) = PathStr(parts)]]
    ELSE LET under == SelectSeq2(SortedPaths(DOMAIN self.sources),
                        {k \in DOMAIN self.sources :
                            StartsWith(PathStr(k), PathStr(parts))})
         IN [found |-> FALSE,
             val |-> [i \in 1..Len(under) |-> self.sources[under[i]]]]

\* sources() raises KeyError for an identifier that is not in _merge_order
sources_raises(self) ==
    \E k \in DOMAIN self.sources :
        IF self.cls = "AdvancedConfiguration"
        THEN \E i \in 1..Len(self.sources[k]) :
                ~InSeq(self.sources[k][i], self.merge_order)
        ELSE ~InSeq(self.sources[k], self.merge_order)

\* sources(): for each identifier of _merge_order the nested keys it is a
\* source of
sources(self) ==
    [s \in {self.merge_order[i] : i \in 1..Len(self.merge_order)} |->
        SelectSeq2(SortedPaths(DOMAIN self.sources),
            {k \in DOMAIN self.sources :
                IF self.cls = "AdvancedConfiguration"
                THEN InSeq(s, self.sources[k])
                ELSE self.sources[k] = s})]

\* AdvancedConfiguration.set_ordering(order): cls._ordering = list(order)
set_ordering(registry, order) == [registry EXCEPT !.ordering = order]

\* The nested keys at which the tree holds a list, the mutable value of a
\* leaf
RECURSIVE ListPaths(_, _)
ListPaths(d, prefix) ==
    UNION {IF IsDict(d.v[k]) THEN ListPaths(d.v[k], prefix \o <<k>>)
           ELSE IF d.v[k].t = "list" THEN {prefix \o <<k>>}
           ELSE {} : k \in DOMAIN d.v}

\* What as_dict returns: the dictionary, and the nested keys of the tree
\* whose list the dictionary holds as the same object
Copied(dict, shares) == [dict |-> dict, shares |-> shares]

\* A variant of the renaming that marks the keys beneath a locked key too
LockedNameBeneath(locked, path, key) ==
    IF \E p \in locked : Len(p) <= Len(path) + 1
                          /\ SubSeq(path \o <<key>>, 1, Len(p)) = p
        THEN <<lock_symbol>> \o key ELSE key

\* The key of curr_path in the copy
LockedName(locked, path, key) ==
    IF path \o <<key>> \in locked THEN <<lock_symbol>> \o key ELSE key

\* AdvancedConfiguration._copy_with_locks(data, new_data, path): new
\* dictionaries, the values of the leaves put in as they are
RECURSIVE _copy_with_locks(_, _, _)
_copy_with_locks(locked, data, path) ==
    Dict([n \in {LockedName(locked, path, k) : k \in DOMAIN data.v} |->
            LET key == CHOOSE k \in DOMAIN data.v : LockedName(locked, path, k) = n
            IN IF IsDict(data.v[key])
               THEN _copy_with_locks(locked, data.v[key], path \o <<key>>)
               ELSE data.v[key]])

\* Configuration.as_dict(): deepcopy(self._data)
Simple_as_dict(self) == Copied(self.data, {})

\* AdvancedConfiguration.as_dict(keep_locks)
as_dict(self, keep_locks) ==
    IF self.cls = "AdvancedConfiguration" /\ keep_locks
        THEN Copied(_copy_with_locks(self.locked, self.data, <<>>),
                    ListPaths(self.data, <<>>))
    ELSE Simple_as_dict(self)

\* list.insert(i, x): before position i counted from 0, from the end when i
\* is negative, at the nearer end when i is out of range
ListInsert(seq, i, x) ==
    LET n == Len(seq)
        j == IF i < 0 THEN (IF n + i < 0 THEN 0 ELSE n + i)
             ELSE IF i > n THEN n ELSE i
    IN SubSeq(seq, 1, j) \o <<x>> \o SubSeq(seq, j + 1, n)

\* index_order or len(cls._ordering): None and 0 are false
OrLen(index_order, n) ==
    IF IsNone(index_order) \/ index_order = PyInt(0) THEN n ELSE index_order.v

\* dict.pop(symbol, None)
Pop(table, symbol) == [k \in DOMAIN table \ {symbol} |-> table[k]]

\* The tables after a registration that went through, or SymbolError
Registered(registry, err) == [registry |-> registry, err |-> err]

\* A variant of register_action without the test for a symbol in use
RegisterActionUnchecked(registry, symbol, func, force, index_order) ==
    Registered([registry EXCEPT
                    !.modifiers = Pop(@, symbol),
                    !.actions = (symbol :> func) @@ @,
                    !.ordering = ListInsert(@, OrLen(index_order, Len(@)), symbol)],
               "")

\* AdvancedConfiguration.register_action(symbol, func, force, index_order)
register_action(registry, symbol, func, force, index_order) ==
    IF ~force /\ (symbol \in DOMAIN registry.modifiers
                    \/ symbol \in DOMAIN registry.actions)
        THEN Registered(registry, "SymbolError")
    ELSE Registered([registry EXCEPT
                        !.modifiers = Pop(@, symbol),
                        !.actions = (symbol :> func) @@ @,
                        !.ordering = ListInsert(@, OrLen(index_order, Len(@)), symbol)],
                    "")

\* AdvancedConfiguration.register_modifier(symbol, func, force, index_order)
register_modifier(registry, symbol, func, force, index_order) ==
    IF ~force /\ (symbol \in DOMAIN registry.modifiers
                    \/ symbol \in DOMAIN registry.actions)
        THEN Registered(registry, "SymbolError")
    ELSE Registered([registry EXCEPT
                        !.actions = Pop(@, symbol),
                        !.modifiers = (symbol :> func) @@ @,
                        !.ordering = ListInsert(@, OrLen(index_order, Len(@)), symbol)],
                    "")

-----------------------------------------------------------------------------
(* The state machine *)

\* Calls made on the instance in one behaviour.
MaxOps == 3

Self ==
    [cls |-> cls, data |-> _data, merge_order |-> _merge_order,
     sources |-> _sources, locked |-> _locked, pending |-> pending_lock]

\* What the class and the process hold
Registry ==
    [actions |-> _actions, modifiers |-> _modifiers, ordering |-> _ordering,
     set_order |-> set_order]

\* No nested key: the tree does not hold the list any more
Nowhere == <<>>

\* A list of a layer of the caller: what it held when it was passed, what it
\* holds now, and the nested key at which the tree holds the same object
PassedList(was, now, path) == [was |-> was, now |-> now, path |-> path]

\* The tree takes another object at the nested key p: the lists held at p and
\* beneath it are not in the tree any more
Detach(lists, p) ==
    {IF e.path # Nowhere /\ Len(p) <= Len(e.path)
            /\ SubSeq(e.path, 1, Len(p)) = p
     THEN PassedList(e.was, e.now, Nowhere) ELSE e : e \in lists}

\* The lists that are in the tree, and those that are not as they were
Live(lists) == {e \in lists : e.path # Nowhere \/ e.now # e.was}

\* The nested key that a round wrote: Configuration._merge writes under the
\* variable key, which the loop over the removed sources may have bound anew
\* (lines 272-277)
WrittenAt(class, order, r) ==
    IF class = "AdvancedConfiguration" THEN r.key_path
    ELSE SubSeq(r.key_path, 1, Len(r.key_path) - 1)
            \o <<KeyAfterRemoval(r.pre.sources, r.sk.true_key, r.key_path,
                                 r.existing, order)>>

\* The lists of the caller after one round of _merge.  A key without action
\* puts the value of the layer in the tree as it is, source[key], the
\* caller's object (advanced_configuration.py:343, 361;
\* simple_configuration.py:277).  _subtract removes from the list of the tree
\* in place (lines 56-61), also when it raises part-way; _copy returns it;
\* _add makes a new list.
AfterRound(lists, class, actions, order, r) ==
    IF r.result = "skipped" THEN lists
    ELSE IF r.sk.action # "" /\ actions[r.sk.action] = "_subtract"
            /\ r.existing.t = "list"
        THEN {IF e.path = r.key_path
              THEN PassedList(e.was, Lookup(r.post.data, r.key_path), e.path)
              ELSE e : e \in lists}
    ELSE IF r.result # "ok" THEN lists
    ELSE IF r.sk.action # "" THEN
        IF actions[r.sk.action] = "_copy" \/ IsDict(Lookup(r.post.data, r.key_path))
        THEN lists ELSE Detach(lists, r.key_path)
    ELSE IF IsDict(r.new) THEN lists
    ELSE Detach(lists, WrittenAt(class, order, r))
            \cup (IF r.new.t = "list"
                  THEN {PassedList(r.new, r.new, WrittenAt(class, order, r))}
                  ELSE {})

RECURSIVE AfterRounds(_, _, _, _, _, _)
AfterRounds(lists, class, actions, order, trace, i) ==
    IF i > Len(trace) THEN lists
    ELSE AfterRounds(AfterRound(lists, class, actions, order, trace[i]),
                     class, actions, order, trace, i + 1)

\* The lists of the caller after a call.  set puts its value at the key;
\* from_dicts merges into a new instance, which config names when the call
\* returns.
AfterCall(lists, op, args, out) ==
    Live(CASE op = "merge" ->
                AfterRounds(lists, cls, _actions, set_order, out.trace, 1)
           [] op = "set" ->
                IF out.err = "" THEN Detach(lists, args.key) ELSE lists
           [] op = "from_dicts" ->
                IF out.err = ""
                THEN {PassedList(e.was, e.now, Nowhere) : e \in lists}
                        \cup AfterRounds({}, cls, _actions, set_order, out.trace, 1)
                ELSE lists \cup {PassedList(e.was, e.now, Nowhere) :
                                    e \in AfterRounds({}, cls, _actions, set_order,
                                                      out.trace, 1)}
           [] OTHER -> lists)

\* The instance becomes out.self, and the history holds the call: its
\* arguments, the exception it raised, the instance before it (pre) and
\* the rounds of _merge.
Returns(op, args, pre, out) ==
    /\ cls' = out.self.cls
    /\ _data' = out.self.data
    /\ _merge_order' = out.self.merge_order
    /\ _sources' = out.self.sources
    /\ _locked' = out.self.locked
    /\ pending_lock' = out.self.pending
    /\ last' = [op |-> op, args |-> args, err |-> out.err, pre |-> pre,
                trace |-> out.trace]
    /\ passed' = AfterCall(passed, op, args, out)

InitOf(class, order) ==
    /\ cls = class
    /\ set_order = order
    /\ _data = Dict(<<>>)
    /\ _merge_order = <<>>
    /\ _sources = <<>>
    /\ _locked = {}
    /\ pending_lock = {}
    /\ _actions = DefaultActions
    /\ _modifiers = DefaultModifiers
    /\ _ordering = DefaultOrdering
    /\ last = [op |-> "init", args |-> <<>>, err |-> "",
               pre |-> NewInstance(class), trace |-> <<>>]
    /\ completed = 0
    /\ ops = 0
    /\ passed = {}

\* config.merge(data, name)
Merge(data, name) ==
    /\ ops < MaxOps
    /\ Returns("merge", [data |-> data, name |-> name], Self,
               merge(Self, Registry, data, name))
    /\ completed' = IF last'.err = "" THEN completed + 1 ELSE completed
    /\ ops' = ops + 1
    /\ UNCHANGED <<_actions, _modifiers, _ordering, set_order>>

\* config.set(key, value)
Set(parts, value) ==
    /\ ops < MaxOps
    /\ Returns("set", [key |-> parts, value |-> value], Self,
               set(Self, parts, value))
    /\ completed' = completed
    /\ ops' = ops + 1
    /\ UNCHANGED <<_actions, _modifiers, _ordering, set_order>>

\* config.lock_key(key)
LockKey(parts) ==
    /\ ops < MaxOps
    /\ cls = "AdvancedConfiguration"
    /\ Returns("lock_key", [key |-> parts], Self, lock_key(Self, parts))
    /\ completed' = completed
    /\ ops' = ops + 1
    /\ UNCHANGED <<_actions, _modifiers, _ordering, set_order>>

\* The instance that config names after config = cls.from_dicts(...)
OrStays(self, out) ==
    IF out.err = "" THEN out ELSE Outcome(self, out.err, out.trace)

\* config = cls.from_dicts(dicts, names): the instance is the new one when
\* the call returns, and stays the one it was when the call raises
FromDicts(dicts, names) ==
    /\ ops < MaxOps
    /\ Returns("from_dicts", [dicts |-> dicts, names |-> names],
               NewInstance(cls),
               OrStays(Self, from_dicts(cls, Registry, dicts, names)))
    /\ completed' = IF last'.err = "" THEN Len(dicts) ELSE completed
    /\ ops' = ops + 1
    /\ UNCHANGED <<_actions, _modifiers, _ordering, set_order>>

\* A call of a class method that registers a symbol
Registers(op, args, out) ==
    /\ ops < MaxOps
    /\ cls = "AdvancedConfiguration"
    /\ _actions' = out.registry.actions
    /\ _modifiers' = out.registry.modifiers
    /\ _ordering' = out.registry.ordering
    /\ last' = [op |-> op, args |-> args, err |-> out.err, pre |-> Self,
                trace |-> <<>>]
    /\ completed' = completed
    /\ ops' = ops + 1
    /\ UNCHANGED <<cls, _data, _merge_order, _sources, _locked, pending_lock,
                   set_order, passed>>

RegisterAction(symbol, func, force, index_order) ==
    Registers("register_action",
              [symbol |-> symbol, func |-> func, force |-> force,
               index_order |-> index_order],
              register_action(Registry, symbol, func, force, index_order))

RegisterModifier(symbol, func, force, index_order) ==
    Registers("register_modifier",
              [symbol |-> symbol, func |-> func, force |-> force,
               index_order |-> index_order],
              register_modifier(Registry, symbol, func, force, index_order))

SetOrdering(order) ==
    Registers("set_ordering", [order |-> order],
              Registered(set_ordering(Registry, order), ""))

\* A call of as_dict: the instance stays, the dictionary is returned
AsDict(keep_locks) ==
    /\ ops < MaxOps
    /\ last' = [op |-> "as_dict", args |-> [keep_locks |-> keep_locks],
                err |-> "", pre |-> Self, trace |-> <<>>,
                result |-> as_dict(Self, keep_locks)]
    /\ completed' = completed
    /\ ops' = ops + 1
    /\ UNCHANGED <<cls, _data, _merge_order, _sources, _locked, pending_lock,
                   _actions, _modifiers, _ordering, set_order, passed>>

\* A key of a layer is parsed as merge does it: recompile() (line 231), then
\* _separate(key) (line 331).  The key is the one the behaviour starts with.
Separate ==
    /\ ops < MaxOps
    /\ last.op = "init"
    /\ last' = [op |-> "_separate", args |-> last.args,
                err |-> IF _separate(recompile(_modifiers, _actions),
                                     last.args.key) = NoMatch
                        THEN "ConfigurationError" ELSE "",
                pre |-> Self, trace |-> <<>>,
                result |-> _separate(recompile(_modifiers, _actions),
                                     last.args.key)]
    /\ completed' = completed
    /\ ops' = ops + 1
    /\ UNCHANGED <<cls, _data, _merge_order, _sources, _locked, pending_lock,
                   _actions, _modifiers, _ordering, set_order, passed>>

-----------------------------------------------------------------------------
(* The calls of the behaviours that are checked *)

A == <<"a">>
B == <<"b">>
AB == <<"a", "b">>

\* A key of a layer: modifiers, action and lock symbol in front of the name
Key(prefix, word) == prefix \o word

One(k, v) == Layer(<<Item(k, v)>>)
Two(k1, v1, k2, v2) == Layer(<<Item(k1, v1), Item(k2, v2)>>)

\* Locks: an AdvancedConfiguration, layers whose keys lock, write, add to
\* and test the keys a and b and the nested key a.b, and direct writes and
\* locks of these.
LockPrefixes == {<<>>, <<"#">>, <<"+">>, <<"?">>, <<"!">>, <<"=", "#">>}
LockLayers ==
    {One(Key(p, A), PyInt(1)) : p \in LockPrefixes}
    \cup {One(A, One(Key(p, B), PyInt(2))) : p \in {<<>>, <<"#">>}}
    \cup {Two(Key(<<"#">>, A), PyInt(1), Key(p, B), PyInt(1)) :
            p \in {<<>>, <<"+">>}}
LockPaths == {<<A>>, <<A, B>>, <<B>>}

\* The orders in which the nested keys of a set can be iterated
RECURSIVE Orders(_)
Orders(S) ==
    IF S = {} THEN {<<>>}
    ELSE UNION {{<<k>> \o o : o \in Orders(S \ {k})} : k \in S}

InitLocks ==
    \E o \in Orders(LockPaths) : InitOf("AdvancedConfiguration", o)

NextLocks ==
    \/ \E d \in LockLayers : Merge(d, NoName)
    \/ \E k \in LockPaths : Set(k, PyInt(3))
    \/ \E k \in LockPaths : LockKey(k)

SpecLocks == InitLocks /\ [][NextLocks]_vars

\* Provenance: an instance of either class, layers from the sources x and
\* y that write a leaf a, add to it, write and lock the branch a with the
\* leaf a.b, and write the leaf ab, whose name starts with a; direct writes
\* of a and a.b, and the lock of a.
SourceNames == {"x", "y"}
SourceLayers ==
    {One(A, PyInt(1)), One(Key(<<"+">>, A), PyInt(1)),
     One(A, One(B, PyInt(2))), One(Key(<<"#">>, A), One(B, PyInt(2))),
     One(AB, PyInt(1))}
SourcePaths == {<<A>>, <<A, B>>}

SourceKeys == {<<A>>, <<A, B>>, <<AB>>}

InitSources ==
    \E o \in Orders(SourceKeys) :
        \/ InitOf("Configuration", o)
        \/ InitOf("AdvancedConfiguration", o)

NextSources ==
    \/ \E d \in SourceLayers, n \in SourceNames : Merge(d, n)
    \/ \E k \in SourcePaths : Set(k, PyInt(3))
    \/ LockKey(<<A>>)

SpecSources == InitSources /\ [][NextSources]_vars

\* Merge order: an instance of either class, merges with and without a
\* name, one of which fails on an instance whose a is a leaf, and from_dicts
\* with no names, fewer names than dicts, as many, and more.
OrderLayers == {One(A, PyInt(1)), One(A, One(B, PyInt(2)))}
OrderNames == {NoName, "x"}
OrderDicts ==
    {<<>>, <<One(A, PyInt(1))>>,
     <<One(A, PyInt(1)), One(B, PyInt(1))>>,
     <<One(A, PyInt(1)), One(A, One(B, PyInt(2)))>>}
OrderNameLists == {<<>>, <<"x">>, <<"x", "y">>, <<"x", "y", "x">>}

OrderKeys == {<<A>>, <<A, B>>, <<B>>}

InitOrder ==
    \E o \in Orders(OrderKeys) :
        \/ InitOf("Configuration", o)
        \/ InitOf("AdvancedConfiguration", o)

NextOrder ==
    \/ \E d \in OrderLayers, n \in OrderNames : Merge(d, n)
    \/ \E ds \in OrderDicts, ns \in OrderNameLists : FromDicts(ds, ns)

SpecOrder == InitOrder /\ [][NextOrder]_vars

\* Actions and modifiers: an AdvancedConfiguration, layers that give the
\* key a a value of each type, layers that test it with ? and !, with or
\* without a lock, next to a plain key b, layers that add to it, subtract
\* from it and copy it, and a layer whose two keys both name a.
ActionValues ==
    {PyInt(0), PyBool(FALSE), None, PyList(<<1, 2, 1>>), PyStr(<<"a", "b", "a">>)}
ActionOperands == {PyInt(1), PyList(<<1, 2>>), PyStr(<<"a">>)}
ModifierPrefixes == {<<"?">>, <<"!">>, <<"?", "#">>, <<"!", "#">>}
ActionLayers ==
    {One(A, v) : v \in ActionValues}
    \cup {Two(Key(p, A), PyInt(1), B, PyInt(1)) : p \in ModifierPrefixes}
    \cup {One(Key(<<s>>, A), w) : s \in {"+", "-"}, w \in ActionOperands}
    \cup {One(Key(p, A), PyInt(1)) : p \in {<<"=">>, <<"=", "#">>}}
    \cup {Two(A, One(B, PyInt(1)), Key(<<"=">>, A), PyInt(0)),
          Two(Key(<<"=">>, A), PyInt(0), A, One(B, PyInt(1)))}

InitActions == InitOf("AdvancedConfiguration", <<<<A>>, <<B>>, <<A, B>>>>)

NextActions ==
    \/ \E d \in ActionLayers : Merge(d, NoName)
    \/ Set(<<A>>, PyInt(3))

SpecActions == InitActions /\ [][NextActions]_vars

\* Registration: an AdvancedConfiguration, registrations of a new symbol, of
\* the symbol of an action and of the symbol of a modifier, as an action and
\* as a modifier, forced or not, at the end, at index 0 and at index 1 of the
\* ordering, and layers whose keys carry these symbols.
RegisterSymbols == {"$", "+", "?"}
RegisterIndexes == {None, PyInt(0), PyInt(1)}
RegisterLayers ==
    {One(A, PyInt(1))}
    \cup {One(Key(<<s>>, A), PyInt(1)) : s \in RegisterSymbols}

InitRegister == InitOf("AdvancedConfiguration", <<<<A>>>>)

NextRegister ==
    \/ \E s \in RegisterSymbols, f \in BOOLEAN, i \in RegisterIndexes :
          RegisterAction(s, "_copy", f, i)
    \/ \E s \in RegisterSymbols, f \in BOOLEAN, i \in RegisterIndexes :
          RegisterModifier(s, "_not_exists", f, i)
    \/ \E d \in RegisterLayers : Merge(d, NoName)

SpecRegister == InitRegister /\ [][NextRegister]_vars

\* Errors part-way: an AdvancedConfiguration, layers of three keys at the top
\* and beneath b, layers with a key that does not match the grammar ("+?b",
\* an action before a modifier) next to a key that does, at the top and one
\* level down, and locks of b and of b.b by a layer and by lock_key.
Cc == <<"c">>
Unknown == <<"+", "?", "b">>
Three(k1, v1, k2, v2, k3, v3) ==
    Layer(<<Item(k1, v1), Item(k2, v2), Item(k3, v3)>>)
ErrorLayers ==
    {Three(A, PyInt(1), B, PyInt(2), Cc, PyInt(3)),
     Two(A, PyInt(1), B, Three(A, PyInt(1), B, PyInt(2), Cc, PyInt(3))),
     Two(A, PyInt(1), Unknown, PyInt(1)),
     Two(Unknown, PyInt(1), A, PyInt(1)),
     Two(A, PyInt(1), B, Two(A, PyInt(1), Unknown, PyInt(1))),
     Two(A, One(Unknown, PyInt(1)), B, PyInt(1)),
     One(Key(<<"#">>, B), PyInt(0)),
     One(B, PyInt(0))}
ErrorLocks == {<<B>>, <<B, B>>}

InitErrors == InitOf("AdvancedConfiguration", <<<<A>>, <<B>>, <<Cc>>>>)

NextErrors ==
    \/ \E d \in ErrorLayers : Merge(d, NoName)
    \/ \E k \in ErrorLocks : LockKey(k)

SpecErrors == InitErrors /\ [][NextErrors]_vars

\* Copies: an AdvancedConfiguration, layers that put a list, a number and a
\* branch at a and a number at b, with and without lock, locks of a, a.b and
\* b by lock_key, and as_dict with and without the locks.
CopyLayers ==
    {One(A, PyList(<<1, 2>>)), One(A, One(B, PyList(<<1>>))),
     One(A, One(Key(<<"#">>, B), PyInt(2))), One(Key(<<"#">>, A), PyInt(1)),
     One(B, PyInt(1))}

InitCopy == InitOf("AdvancedConfiguration", <<<<A>>, <<B>>, <<A, B>>>>)

NextCopy ==
    \/ \E d \in CopyLayers : Merge(d, NoName)
    \/ \E k \in LockPaths : LockKey(k)
    \/ \E keep_locks \in BOOLEAN : AsDict(keep_locks)

SpecCopy == InitCopy /\ [][NextCopy]_vars

\* The ordering of the symbols: an AdvancedConfiguration, layers that give a
\* a list or a number, layers with two keys of the true key a and different
\* actions, in both insertion orders, one of them behind a modifier and one
\* of them with the lock symbol, and
\* set_ordering with the ordering of the class, with - before + and =, and
\* without -.
Plus(v) == Item(Key(<<"+">>, A), v)
Minus(v) == Item(Key(<<"-">>, A), v)
SymbolLayers ==
    {One(A, PyList(<<1>>)), One(A, PyInt(5)),
     Layer(<<Plus(PyList(<<2>>)), Minus(PyList(<<2>>))>>),
     Layer(<<Minus(PyList(<<2>>)), Plus(PyList(<<2>>))>>),
     Layer(<<Minus(PyInt(1)), Plus(PyInt(1))>>),
     Layer(<<Plus(PyList(<<2>>)), Item(Key(<<"=">>, A), PyInt(0))>>),
     Layer(<<Item(Key(<<"?", "-">>, A), PyList(<<2>>)), Plus(PyList(<<2>>))>>),
     Layer(<<Item(Key(<<"+", "#">>, A), PyList(<<2>>)), Minus(PyList(<<2>>))>>)}
SymbolOrders ==
    {DefaultOrdering, <<"-", "+", "=", "!", "?">>, <<"+", "=", "!", "?">>}

InitSymbols == InitOf("AdvancedConfiguration", <<<<A>>>>)

NextSymbols ==
    \/ \E d \in SymbolLayers : Merge(d, NoName)
    \/ \E o \in SymbolOrders : SetOrdering(o)

SpecSymbols == InitSymbols /\ [][NextSymbols]_vars

\* The layers of the caller: an instance of either class, layers that give
\* a and b.a a list, layers that subtract from the list, one of them a value
\* that the list does not hold, that add to it, copy it and replace it by a
\* number, set of a, and from_dicts of a list and a layer that subtracts
\* from it.
PassedLayers ==
    {One(A, PyList(<<1, 2>>)), One(B, One(A, PyList(<<1>>))),
     One(Key(<<"-">>, A), PyList(<<1>>)), One(Key(<<"-">>, A), PyList(<<2, 3>>)),
     One(B, One(Key(<<"-">>, A), PyList(<<1>>))),
     One(Key(<<"+">>, A), PyList(<<3>>)), One(Key(<<"=">>, A), PyList(<<9>>)),
     One(A, PyInt(5))}
PassedDicts ==
    {<<One(A, PyList(<<1, 2>>)), One(Key(<<"-">>, A), PyList(<<1>>))>>,
     <<One(A, PyList(<<1, 2>>)), One(Key(<<"-">>, A), PyList(<<2, 3>>))>>}

InitPassed ==
    \/ InitOf("Configuration", <<<<A>>, <<B, A>>>>)
    \/ InitOf("AdvancedConfiguration", <<<<A>>, <<B, A>>>>)

NextPassed ==
    \/ \E d \in PassedLayers : Merge(d, NoName)
    \/ Set(<<A>>, PyInt(3))
    \/ \E ds \in PassedDicts : FromDicts(ds, <<>>)

SpecPassed == InitPassed /\ [][NextPassed]_vars

\* The key grammar: an AdvancedConfiguration with the symbols of the class
\* and a raw key of modifier, action and lock symbols, word characters and
\* the newline, which is parsed.
MaxKeyLen == 5
GrammarChars == {"?", "!", "+", "#", "a", "1", NewLine}
RawKeys == UNION {[1..n -> GrammarChars] : n \in 0..MaxKeyLen}

InitGrammar ==
    \E k \in RawKeys :
        /\ cls = "AdvancedConfiguration"
        /\ set_order = <<>>
        /\ _data = Dict(<<>>)
        /\ _merge_order = <<>>
        /\ _sources = <<>>
        /\ _locked = {}
        /\ pending_lock = {}
        /\ _actions = DefaultActions
        /\ _modifiers = DefaultModifiers
        /\ _ordering = DefaultOrdering
        /\ last = [op |-> "init", args |-> [key |-> k], err |-> "",
                   pre |-> NewInstance("AdvancedConfiguration"), trace |-> <<>>]
        /\ completed = 0
        /\ ops = 0
        /\ passed = {}

NextGrammar == Separate

SpecGrammar == InitGrammar /\ [][NextGrammar]_vars

-----------------------------------------------------------------------------
(* Properties *)

\* The rounds of _merge in the last call
Rounds == {last.trace[i] : i \in 1..Len(last.trace)}

\* p is q or an ancestor of q, by segments
IsPrefix(p, q) == Len(p) <= Len(q) /\ SubSeq(q, 1, Len(p)) = p

\* q lies beneath p
Beneath(p, q) == IsPrefix(p, q) /\ p # q

\* parts or one of its ancestors is locked
LockedAbove(locked, parts) == \E p \in locked : IsPrefix(p, parts)

\* The provenance list of a nested key, empty when it has none
ListOf(index, k) == IF k \in DOMAIN index THEN index[k] ELSE <<>>

\* The nested keys of the leaves, and of the branches, of a tree
RECURSIVE LeafPaths(_, _)
LeafPaths(d, prefix) ==
    UNION {IF IsDict(d.v[k]) THEN LeafPaths(d.v[k], prefix \o <<k>>)
           ELSE {prefix \o <<k>>} : k \in DOMAIN d.v}

RECURSIVE BranchPaths(_, _)
BranchPaths(d, prefix) ==
    UNION {IF IsDict(d.v[k])
           THEN {prefix \o <<k>>} \cup BranchPaths(d.v[k], prefix \o <<k>>)
           ELSE {} : k \in DOMAIN d.v}

\* C1: after a merge of an AdvancedConfiguration that raised, the active
\* locks are those from before the call, and the locks that a merge that
\* returned has made active are locks that a key of that very call asked
\* for: a lock staged by a call that raised never becomes active.
C1_StagedLocksDiscarded ==
    last.op = "merge" =>
        /\ last.err # "" => _locked = last.pre.locked
        /\ last.err = "" =>
              \A p \in _locked \ last.pre.locked :
                  \E r \in Rounds :
                      r.sk.lock # "" /\ r.key_path = p /\ r.result = "ok"

\* C2: set on a nested key that is locked or has a locked ancestor raises
\* LockError and leaves the tree as it was; a key of a merge layer that
\* resolves to such a nested key ends the merge with LockError, and leaves
\* the tree as it found it.
C2_LockedWriteRaises ==
    /\ last.op = "set" /\ LockedAbove(last.pre.locked, last.args.key) =>
          last.err = "LockError" /\ _data = last.pre.data
    /\ last.op = "merge" =>
          \A r \in Rounds : LockedAbove(last.pre.locked, r.key_path) =>
              /\ r.result = "LockError"
              /\ last.err = "LockError"
              /\ r.post.data = r.pre.data
              /\ _data = r.pre.data

\* C2 witness: set('a.b', 3) raised LockError because a is locked
C2_Witness ==
    /\ last.op = "set"
    /\ last.args.key = <<A, B>>
    /\ <<A>> \in last.pre.locked
    /\ <<A, B>> \notin last.pre.locked
    /\ last.err = "LockError"

\* C3: every nested key that has a provenance entry resolves in the tree to
\* a value that is not a dict.
C3_ProvenanceOnLeaves ==
    \A k \in DOMAIN _sources : Lookup(_data, k).t \notin {"missing", "dict"}

\* A round of a key without action whose value is a leaf, where the tree
\* held a dict
LeafOverBranch(r) ==
    /\ r.result = "ok"
    /\ IsDict(r.existing)
    /\ r.sk.action = ""
    /\ ~IsDict(r.new)

\* C4: when a key of a merge writes a leaf where the tree held a dict, the
\* round leaves no provenance entry beneath the nested key, the nested key is
\* attributed to the identifier of the merge, and when the merge returns
\* sources() lists none of the nested keys that had an entry beneath it.
C4_LostSourcesRemoved ==
    last.op = "merge" =>
        \A r \in Rounds : LeafOverBranch(r) =>
            /\ \A k \in DOMAIN r.post.sources : ~Beneath(r.key_path, k)
            /\ r.key_path \in DOMAIN r.post.sources
            /\ IF cls = "AdvancedConfiguration"
               THEN r.post.sources[r.key_path] = <<r.name>>
               ELSE r.post.sources[r.key_path] = r.name
            /\ last.err = "" =>
                  \A s \in DOMAIN sources(Self) :
                      \A k \in DOMAIN r.pre.sources :
                          Beneath(r.key_path, k) => ~InSeq(k, sources(Self)[s])

\* C4 witness: a leaf was written over a dict that had a leaf with a
\* provenance entry beneath it
C4_Witness ==
    /\ last.op = "merge"
    /\ last.err = ""
    /\ \E r \in Rounds :
          /\ LeafOverBranch(r)
          /\ \E k \in DOMAIN r.pre.sources : Beneath(r.key_path, k)

\* A round of a key without modifier and action whose value is a dict, where
\* the tree held a leaf
BranchOverLeaf(r) ==
    /\ r.sk.modifiers = <<>>
    /\ r.sk.action = ""
    /\ IsDict(r.new)
    /\ r.existing.t \notin {"None", "dict"}

\* C5: a merge whose layer holds a dict at a nested key where the tree holds
\* a leaf returns without exception, the nested key then holds a dict, and
\* the provenance entry of the former leaf is gone.
C5_BranchReplacesLeaf ==
    last.op = "merge" =>
        \A r \in Rounds : BranchOverLeaf(r) =>
            /\ r.result = "ok"
            /\ last.err = ""
            /\ IsDict(Lookup(r.post.data, r.key_path))
            /\ r.key_path \notin DOMAIN r.post.sources

\* C6: in AdvancedConfiguration, a key without action that writes a leaf
\* leaves the provenance list of its nested key equal to the identifier of
\* the merge alone; a key with an action leaves a list that starts with the
\* list from before, holds the identifier of the merge, and holds nothing
\* else.
C6_OverrideResetsActionKeeps ==
    cls = "AdvancedConfiguration" /\ last.op = "merge" =>
        \A r \in Rounds : r.result = "ok" =>
            /\ r.sk.action = "" /\ ~IsDict(r.new) =>
                  ListOf(r.post.sources, r.key_path) = <<r.name>>
            /\ r.sk.action # "" =>
                  /\ IsPrefix(ListOf(r.pre.sources, r.key_path),
                              ListOf(r.post.sources, r.key_path))
                  /\ InSeq(r.name, ListOf(r.post.sources, r.key_path))
                  /\ \A i \in 1..Len(ListOf(r.post.sources, r.key_path)) :
                        \/ ListOf(r.post.sources, r.key_path)[i] = r.name
                        \/ InSeq(ListOf(r.post.sources, r.key_path)[i],
                                 ListOf(r.pre.sources, r.key_path))

\* C6 witness: a key with an action was merged by a source that the list of
\* its nested key did not hold, after another source
C6_Witness ==
    /\ cls = "AdvancedConfiguration"
    /\ last.op = "merge"
    /\ \E r \in Rounds :
          /\ r.result = "ok"
          /\ r.sk.action # ""
          /\ ListOf(r.pre.sources, r.key_path) # <<>>
          /\ ~InSeq(r.name, ListOf(r.pre.sources, r.key_path))

\* A round of a key with an action or the lock symbol
Incremental(r) ==
    /\ r.result = "ok"
    /\ r.sk.action # "" \/ r.sk.lock # ""

\* The provenance list that the incremental operation of a round finds: the
\* list from before the round, which a leaf written without action has
\* emptied
ListFound(r) ==
    IF r.sk.action = "" /\ ~IsDict(r.new) THEN <<>>
    ELSE ListOf(r.pre.sources, r.key_path)

SourceHolds(self, p, s) ==
    IF self.cls = "AdvancedConfiguration"
    THEN IF source(self, p).found THEN InSeq(s, source(self, p).val)
         ELSE \E i \in 1..Len(source(self, p).val) :
                 InSeq(s, source(self, p).val[i])
    ELSE IF source(self, p).found THEN source(self, p).val = s
         ELSE InSeq(s, source(self, p).val)

\* C8: sources() returns, with a key for every identifier of a merge that
\* returned, and a leaf p of the tree is listed under s exactly when
\* source(p) is or contains s.
C8_SourcesInvertsSource ==
    /\ ~sources_raises(Self)
    /\ \A i \in 1..Len(_merge_order) : _merge_order[i] \in DOMAIN sources(Self)
    /\ \A s \in DOMAIN sources(Self) :
          \A p \in LeafPaths(_data, <<>>) :
              InSeq(p, sources(Self)[s]) <=> SourceHolds(Self, p, s)

\* C9: for a branch p of the tree of a Configuration, source(p) holds each
\* identifier of a provenance entry beneath p once, and no other.
C9_BranchSourceIsUnion ==
    cls = "Configuration" =>
        \A p \in BranchPaths(_data, <<>>) : ~source(Self, p).found =>
            /\ {source(Self, p).val[i] : i \in 1..Len(source(Self, p).val)}
                 = {_sources[k] : k \in {j \in DOMAIN _sources : Beneath(p, j)}}
            /\ Len(source(Self, p).val)
                 = Cardinality({_sources[k] :
                        k \in {j \in DOMAIN _sources : Beneath(p, j)}})

\* C10: merge_order has one identifier for each merge that returned
\* (merge_count is its length); a merge that returns appends its name, or
\* the number of merges that returned before it when it has none; a merge
\* that raises appends nothing; from_dicts raises only if a merge raises or
\* there are more names than dicts, and the instance it returns has one
\* identifier for each dict, in order: its name, or its 0-based position
\* when the names do not reach it.
C10_MergeOrder ==
    /\ Len(_merge_order) = completed
    /\ last.op = "merge" /\ last.err = "" =>
          _merge_order = Append(last.pre.merge_order,
                                IF last.args.name = NoName
                                THEN ToString(completed - 1)
                                ELSE last.args.name)
    /\ last.op = "merge" /\ last.err # "" =>
          _merge_order = last.pre.merge_order
    /\ last.op = "from_dicts" /\ last.err # "" =>
          \/ Len(last.args.names) > Len(last.args.dicts)
          \/ \E r \in Rounds : r.result = last.err
    /\ last.op = "from_dicts" /\ last.err = "" =>
          _merge_order =
              [i \in 1..Len(last.args.dicts) |->
                  IF i <= Len(last.args.names) THEN last.args.names[i]
                  ELSE ToString(i - 1)]

\* C10 witness: from_dicts returned for two dicts and one name
C10_Witness ==
    /\ last.op = "from_dicts"
    /\ last.err = ""
    /\ Len(last.args.dicts) = 2
    /\ Len(last.args.names) = 1
    /\ _merge_order = <<"x", "1">>

\* The leaves of a layer: the nested key and the value of each
RECURSIVE LayerLeaves(_, _)
LayerLeaves(layer, prefix) ==
    UNION {IF IsDict(layer.items[i].val)
           THEN LayerLeaves(layer.items[i].val, prefix \o <<layer.items[i].key>>)
           ELSE {[path |-> prefix \o <<layer.items[i].key>>,
                  val |-> layer.items[i].val]} : i \in 1..Len(layer.items)}

\* A layer of plain keys: words without a symbol in front, at every depth
RECURSIVE PlainLayer(_)
PlainLayer(layer) ==
    \A i \in 1..Len(layer.items) :
        /\ \A j \in 1..Len(layer.items[i].key) : layer.items[i].key[j] \in WordChars
        /\ IsDict(layer.items[i].val) => PlainLayer(layer.items[i].val)

\* C11: after a merge of a layer of plain keys that returned, every leaf of
\* the layer holds the value of the layer in the tree (so the last layer that
\* contains a nested key determines its value), every leaf of the tree from
\* before the call that is not a leaf of the layer, nor beneath or above
\* one, holds the value it held, and the tree has no leaf that is neither
\* one from before nor one of the layer.
C11_MergeWritesLayerOnly ==
    last.op = "merge" /\ last.err = "" /\ PlainLayer(last.args.data) =>
        /\ \A l \in LayerLeaves(last.args.data, <<>>) :
              Lookup(_data, l.path) = l.val
        /\ \A q \in LeafPaths(last.pre.data, <<>>) :
              (\A l \in LayerLeaves(last.args.data, <<>>) :
                    ~IsPrefix(l.path, q) /\ ~IsPrefix(q, l.path))
                => Lookup(_data, q) = Lookup(last.pre.data, q)
        /\ \A q \in LeafPaths(_data, <<>>) :
              \/ q \in LeafPaths(last.pre.data, <<>>)
              \/ \E l \in LayerLeaves(last.args.data, <<>>) : l.path = q


\* The rounds that read the destination: the key is not locked and the
\* destination is a branch
Front(parts) == SubSeq(parts, 1, Len(parts) - 1)
Tested(r) ==
    /\ r.key_path \notin last.pre.locked
    /\ IsDict(Lookup(r.pre.data, Front(r.key_path)))

\* What the destination holds at the true key of a round, None when the key
\* is absent
Held(r) == DictGet(Lookup(r.pre.data, Front(r.key_path)), r.sk.true_key)

\* A key with the modifiers mods in front of the word k
Modified(mods, k) == SeparatedKey(Key(mods, k), mods, "", "", k)

\* C12: a key whose only modifier is ? is applied exactly when the
\* destination holds a value other than None at its true key, a key whose
\* only modifier is ! exactly when it holds None or nothing; in every state
\* and for every top-level key, exactly one of ?k and !k passes its modifier.
C12_ExistsIsNotNone ==
    /\ \A r \in Rounds : Tested(r) =>
          /\ r.sk.modifiers = <<"?">> => (r.result # "skipped" <=> ~IsNone(Held(r)))
          /\ r.sk.modifiers = <<"!">> => (r.result # "skipped" <=> IsNone(Held(r)))
    /\ \A k \in {A, B} :
          _apply_modifiers(_modifiers, Modified(<<"?">>, k), DictGet(_data, k), PyInt(1))
            # _apply_modifiers(_modifiers, Modified(<<"!">>, k), DictGet(_data, k), PyInt(1))

\* C12 witness: a key ?k was applied over the value False
C12_Witness ==
    \E r \in Rounds :
        /\ r.sk.modifiers = <<"?">>
        /\ Held(r) = PyBool(FALSE)
        /\ r.result = "ok"
        /\ Lookup(_data, r.key_path) = PyInt(1)

\* The top-level rounds of the last call that a modifier skipped
SkippedRounds == {r \in Rounds : r.result = "skipped" /\ Len(r.key_path) = 1}

\* The layer without the items whose key is in S
WithoutKeys(layer, S) ==
    Layer(SelectSeq2(layer.items, {layer.items[i] : i \in 1..Len(layer.items)}
                                  \ {it \in {layer.items[i] : i \in 1..Len(layer.items)} :
                                        it.key \in S}))

\* The call left the instance and the error that the last call left
LeavesTheSame(out) == out.self = Self /\ out.err = last.err

\* C13: a round that a modifier skipped leaves the tree, the provenance and
\* the pending locks as they were; the merge of the layer without its skipped
\* top-level keys, from the same state, leaves the same tree, provenance,
\* pending locks and active locks and the same error; and when the call
\* returned, every other top-level key of the layer had its round.
C13_SkippedKeyHasNoEffect ==
    last.op = "merge" /\ cls = "AdvancedConfiguration" =>
        /\ \A r \in Rounds : r.result = "skipped" => r.post = r.pre
        /\ LeavesTheSame(merge(last.pre, Registry,
                               WithoutKeys(last.args.data,
                                           {r.sk.key : r \in SkippedRounds}),
                               last.args.name))
        /\ last.err = "" /\ SkippedRounds # {} =>
              \A i \in 1..Len(last.args.data.items) :
                  \E r \in Rounds : /\ Len(r.key_path) = 1
                                    /\ r.sk.key = last.args.data.items[i].key

\* C13 witness: a key that carries a lock was skipped, and the other key of
\* the layer was written by the same call
C13_Witness ==
    /\ last.op = "merge" /\ last.err = ""
    /\ \E r \in SkippedRounds : r.sk.lock # "" /\ r.key_path \notin _locked
    /\ Lookup(last.pre.data, <<B>>) = Missing
    /\ Lookup(_data, <<B>>) = PyInt(1)

\* The layer with its items in the opposite insertion order
Reversed(layer) ==
    Layer([i \in 1..Len(layer.items) |-> layer.items[Len(layer.items) + 1 - i]])

\* The call left the tree, the provenance and the staged or committed locks
\* that the last call left, and raised exactly if the last call raised
SameOutcome(out) ==
    /\ out.self.data = _data
    /\ out.self.sources = _sources
    /\ out.self.pending \cup out.self.locked = pending_lock \cup _locked
    /\ (out.err = "") = (last.err = "")

\* C14: the merge of a layer and the merge, from the same state, of the layer
\* with the same items inserted in the opposite order leave the same tree,
\* provenance and locks, and both raise or both return.
C14_InsertionOrderIrrelevant ==
    last.op = "merge" /\ cls = "AdvancedConfiguration" =>
        SameOutcome(merge(last.pre, Registry, Reversed(last.args.data),
                          last.args.name))

\* The rounds of a key =k or =#k, without modifier, over a key that holds a
\* value
CopyRounds ==
    {r \in Rounds : /\ r.sk.action = "=" /\ r.sk.modifiers = <<>>
                    /\ Tested(r) /\ ~IsNone(Held(r))}

\* C15: a key =k over a key that holds a value leaves the value of k as it
\* was, whatever the incoming value, and the provenance list of k holds the
\* merging source; when the key also carries the lock and the call returned,
\* k is an active lock, and a set of k and a merge of a plain key k raise
\* LockError.
C15_CopyKeepsAndLocks ==
    last.op = "merge" /\ cls = "AdvancedConfiguration" =>
        \A r \in CopyRounds :
            /\ ~IsDict(Held(r)) => r.result = "ok"
            /\ r.result = "ok" =>
                  /\ Lookup(r.post.data, r.key_path) = Held(r)
                  /\ InSeq(r.name, ListOf(r.post.sources, r.key_path))
            /\ r.sk.lock # "" /\ last.err = "" =>
                  /\ r.key_path \in _locked
                  /\ Lookup(_data, r.key_path) = Held(r)
                  /\ set(Self, r.key_path, PyInt(3)).err = "LockError"
                  /\ Len(r.key_path) = 1 =>
                        merge(Self, Registry, One(r.sk.true_key, PyInt(3)),
                              NoName).err = "LockError"

\* C15 witness: =#a with the value 1 was merged over a list, which a still
\* holds, and a is locked
C15_Witness ==
    /\ last.op = "merge" /\ last.err = ""
    /\ \E r \in CopyRounds :
          /\ r.sk.lock # "" /\ r.new = PyInt(1)
          /\ Held(r) = PyList(<<1, 2, 1>>)
          /\ r.key_path = <<A>>
    /\ Lookup(_data, <<A>>) = PyList(<<1, 2, 1>>)
    /\ <<A>> \in _locked /\ <<A>> \notin last.pre.locked

\* How many times x occurs in a sequence
Count(seq, x) == Cardinality({i \in 1..Len(seq) : seq[i] = x})

\* The elements of a sequence at the indexes in S, in their order
AtIndexes(seq, S) ==
    [k \in 1..Cardinality(S) |->
        seq[CHOOSE i \in S : Cardinality({j \in S : j <= i}) = k]]

\* v with each element of w removed once: the n first occurrences of x go
\* when x occurs n times in w
RemovedOnce(v, w) ==
    AtIndexes(v, {i \in 1..Len(v) :
                    Cardinality({j \in 1..i : v[j] = v[i]}) > Count(w, v[i])})

\* The rounds of a key with the action symbol, without modifier, that read
\* the destination
ActionRounds(symbol) ==
    {r \in Rounds : r.sk.action = symbol /\ r.sk.modifiers = <<>> /\ Tested(r)}

\* The round returned and left the value at its key
Stored(r, value) == r.result = "ok" /\ Lookup(r.post.data, r.key_path) = value

\* C16: over an existing value v, +k with w stores v followed by w for lists
\* and for strings and v + w for numbers; -k with w stores v - w for numbers,
\* v without the first occurrences of the elements of w for lists (each
\* element of w removes one; w is within v), and v without any occurrence
\* of w for strings (w one character).
C16_AddAndSubtract ==
    last.op = "merge" /\ cls = "AdvancedConfiguration" =>
        /\ \A r \in ActionRounds("+") :
              /\ Held(r).t = "list" /\ r.new.t = "list" =>
                    Stored(r, PyList(Held(r).v \o r.new.v))
              /\ Held(r).t = "str" /\ r.new.t = "str" =>
                    Stored(r, PyStr(Held(r).v \o r.new.v))
              /\ Held(r).t = "int" /\ r.new.t = "int" =>
                    Stored(r, PyInt(Held(r).v + r.new.v))
        /\ \A r \in ActionRounds("-") :
              /\ Held(r).t = "int" /\ r.new.t = "int" =>
                    Stored(r, PyInt(Held(r).v - r.new.v))
              /\ /\ Held(r).t = "list" /\ r.new.t = "list"
                 /\ \A x \in {r.new.v[i] : i \in 1..Len(r.new.v)} :
                        Count(r.new.v, x) <= Count(Held(r).v, x)
                 => Stored(r, PyList(RemovedOnce(Held(r).v, r.new.v)))
              /\ Held(r).t = "str" /\ r.new.t = "str" /\ Len(r.new.v) = 1 =>
                    Stored(r, PyStr(SelectSeq2(Held(r).v,
                                               {Held(r).v[i] : i \in 1..Len(Held(r).v)}
                                                 \ {r.new.v[1]})))

\* C16 witness: the list [1, 2] was subtracted from the list [1, 2, 1],
\* which left [1]
C16_Witness ==
    /\ last.op = "merge" /\ last.err = ""
    /\ \E r \in ActionRounds("-") :
          /\ Held(r) = PyList(<<1, 2, 1>>)
          /\ r.new = PyList(<<1, 2>>)
    /\ Lookup(_data, <<A>>) = PyList(<<1>>)

\* C17: a key +k over a destination that holds nothing at k (k absent or
\* None) stores the incoming value at k, and the merge of a layer of that
\* one key returns.
C17_AddSetsWhenAbsent ==
    last.op = "merge" /\ cls = "AdvancedConfiguration" =>
        \A r \in ActionRounds("+") : IsNone(Held(r)) =>
            /\ Stored(r, r.new)
            /\ Len(last.args.data.items) = 1 => last.err = ""

\* C18: after a merge that returned, the active locks are the active locks
\* from before the call and the paths of the keys of the layer that carried
\* the lock and were not skipped, and nothing is pending; and no call takes
\* a path out of the active locks.
C18_LocksCommittedExactly ==
    /\ last.op = "merge" /\ last.err = "" /\ cls = "AdvancedConfiguration" =>
          /\ _locked = last.pre.locked
                         \cup {r.key_path : r \in {x \in Rounds : /\ x.sk.lock # ""
                                                                 /\ x.result = "ok"}}
          /\ pending_lock = {}
    /\ last.op # "init" => last.pre.locked \subseteq _locked

\* The keys that is_locked is asked about: the keys of the layers, the keys
\* beneath them and a key whose string starts with the string of another
QueryPaths == LockPaths \cup {<<B, A>>, <<A, B, A>>, <<AB>>}

\* C19: right after lock_key(p), p is an active lock and is_locked(p) is
\* true; and in every state is_locked(q) is true exactly when q or the path
\* of some first segments of q is an active lock, so that a branch above a
\* locked key is not locked by it.
C19_LockKeyAndIsLocked ==
    /\ last.op = "lock_key" =>
          /\ last.err = ""
          /\ _locked = last.pre.locked \cup {last.args.key}
          /\ is_locked(Self, last.args.key)
    /\ cls = "AdvancedConfiguration" =>
          \A q \in QueryPaths :
              is_locked(Self, q) <=> \E p \in _locked : IsPrefix(p, q)

\* C19 witness: lock_key locked a.b, which is locked with the key beneath
\* it, while the branch a above it is not
C19_Witness ==
    /\ last.op = "lock_key" /\ last.args.key = <<A, B>>
    /\ <<A, B>> \notin last.pre.locked
    /\ is_locked(Self, <<A, B>>) /\ is_locked(Self, <<A, B, A>>)
    /\ ~is_locked(Self, <<A>>)

\* C20: a call of register_action or register_modifier with force false and
\* a symbol that is in the action table or in the modifier table raises
\* SymbolError and leaves the action table, the modifier table and the
\* ordering as they were.
C20_ConflictRaisesSymbolError ==
    [][(/\ ops' = ops + 1
        /\ last'.op \in {"register_action", "register_modifier"}
        /\ ~last'.args.force
        /\ last'.args.symbol \in DOMAIN _actions \cup DOMAIN _modifiers)
       => /\ last'.err = "SymbolError"
          /\ UNCHANGED <<_actions, _modifiers, _ordering>>]_vars

\* C20 witness: register_action without force on the symbol of a modifier
\* raised SymbolError, and the symbol is still a modifier and not an action
C20_Witness ==
    /\ last.op = "register_action" /\ last.err = "SymbolError"
    /\ ~last.args.force
    /\ last.args.symbol = "?"
    /\ "?" \in DOMAIN _modifiers /\ "?" \notin DOMAIN _actions

\* The step is a call of register_action or register_modifier
RegisterStep ==
    ops' = ops + 1 /\ last'.op \in {"register_action", "register_modifier"}

\* The table a registration writes and the other table, after the step
OwnTable == IF last'.op = "register_action" THEN _actions' ELSE _modifiers'
OtherTable == IF last'.op = "register_action" THEN _modifiers' ELSE _actions'

\* C21: after a call of register_action or register_modifier with force true
\* and a symbol that was in the action table or in the modifier table, the
\* symbol is in the table of the call, bound to the function of the call,
\* and not in the other table, and it occurs once in the ordering.
C21_ForceLeavesNoTrace ==
    [][(/\ RegisterStep
        /\ last'.args.force
        /\ last'.args.symbol \in DOMAIN _actions \cup DOMAIN _modifiers)
       => /\ last'.err = ""
          /\ last'.args.symbol \in DOMAIN OwnTable
          /\ OwnTable[last'.args.symbol] = last'.args.func
          /\ last'.args.symbol \notin DOMAIN OtherTable
          /\ Count(_ordering', last'.args.symbol) = 1]_vars

\* C22: a registration that went through with index_order = i, for i from 0
\* to the length of the ordering, leaves the symbol at position i (counted
\* from 0) with the symbols of the ordering around it in their order, and a
\* registration without index leaves the ordering followed by the symbol.
C22_IndexPlacesSymbol ==
    [][(RegisterStep /\ last'.err = "")
       => /\ IsNone(last'.args.index_order) =>
                _ordering' = Append(_ordering, last'.args.symbol)
          /\ /\ ~IsNone(last'.args.index_order)
             /\ last'.args.index_order.v \in 0..Len(_ordering)
             => _ordering' = SubSeq(_ordering, 1, last'.args.index_order.v)
                               \o <<last'.args.symbol>>
                               \o SubSeq(_ordering, last'.args.index_order.v + 1,
                                         Len(_ordering))]_vars

\* The key is modifier symbols, then at most one action symbol, then at most
\* one lock symbol, then a word that is not empty
Grammatical(key) ==
    \E m \in 0..Len(key), a \in 0..1, l \in 0..1 :
        /\ m + a + l < Len(key)
        /\ \A i \in 1..m : key[i] \in DOMAIN _modifiers
        /\ a = 1 => key[m + 1] \in DOMAIN _actions
        /\ l = 1 => key[m + a + 1] = lock_symbol
        /\ \A i \in (m + a + l + 1)..Len(key) : key[i] \in WordChars

\* The action or lock part of a parse as a string of characters
PartOf(symbol) == IF symbol = "" THEN <<>> ELSE <<symbol>>

\* C23: a raw key is parsed without error exactly when it is modifier
\* symbols, then at most one action symbol, then at most one lock symbol,
\* then a non-empty word; the parts of the parse are modifier symbols, an
\* action symbol or nothing, the lock symbol or nothing and a non-empty
\* word, and put together they are the raw key.
C23_KeyGrammar ==
    last.op = "_separate" =>
        /\ last.err = "" <=> Grammatical(last.args.key)
        /\ last.err = "" =>
              /\ \A i \in 1..Len(last.result.modifiers) :
                    last.result.modifiers[i] \in DOMAIN _modifiers
              /\ last.result.action \in {""} \cup DOMAIN _actions
              /\ last.result.lock \in {"", lock_symbol}
              /\ last.result.true_key # <<>>
              /\ \A i \in 1..Len(last.result.true_key) :
                    last.result.true_key[i] \in WordChars
              /\ last.result.modifiers \o PartOf(last.result.action)
                    \o PartOf(last.result.lock) \o last.result.true_key
                  = last.args.key

\* Some key of the layer does not match the grammar
HasUnknownKey(layer) ==
    \E i \in 1..Len(layer.items) : ~Grammatical(Matched(layer.items[i].key))

\* The rounds of a plain key whose value is a layer with a key that does not
\* match, and that read the destination
UnknownBeneath ==
    {r \in Rounds : /\ r.sk.action = "" /\ r.sk.modifiers = <<>> /\ Tested(r)
                    /\ IsDict(r.new) /\ HasUnknownKey(r.new)}

\* C24: a merge of a layer with a key that does not match the grammar raises
\* ConfigurationError without a round, with the tree and the provenance as
\* they were; a key whose layer holds such a key raises it without a round
\* for a key of that layer, with nothing at its path but what was there, or
\* an empty branch when nothing was; and what the rounds that returned
\* before it wrote is still in the tree and in the provenance.
C24_ParsedBeforeApplied ==
    last.op = "merge" /\ cls = "AdvancedConfiguration" =>
        /\ HasUnknownKey(last.args.data) =>
              /\ last.err = "ConfigurationError"
              /\ Rounds = {}
              /\ _data = last.pre.data /\ _sources = last.pre.sources
        /\ \A r \in UnknownBeneath :
              /\ r.result = "ConfigurationError"
              /\ last.err = "ConfigurationError"
              /\ \A x \in Rounds : Front(x.key_path) # r.key_path
              /\ Lookup(_data, r.key_path)
                    = IF Lookup(r.pre.data, r.key_path) = Missing THEN Dict(<<>>)
                      ELSE Lookup(r.pre.data, r.key_path)
              /\ \A x \in Rounds : x.result = "ok" =>
                    /\ Lookup(_data, x.key_path) = Lookup(x.post.data, x.key_path)
                    /\ ListOf(_sources, x.key_path) = ListOf(x.post.sources, x.key_path)

\* C24 witness: the layer beneath b held a key that does not match, next to
\* the key a; the key a of the top was written before, and b.a was not
C24_Witness ==
    /\ last.op = "merge" /\ last.err = "ConfigurationError"
    /\ \E r \in UnknownBeneath : r.key_path = <<B>>
    /\ \E x \in Rounds : x.key_path = <<A>> /\ x.result = "ok"
    /\ Lookup(last.pre.data, <<A>>) = Missing
    /\ Lookup(_data, <<A>>) = PyInt(1)
    /\ Lookup(_data, <<B, A>>) = Missing

\* The index in the trace of the round of the key at which LockError was
\* raised: the first round that failed (the rounds of the keys above it
\* follow it)
RaisedAt ==
    CHOOSE i \in 1..Len(last.trace) :
        /\ last.trace[i].result = "LockError"
        /\ \A j \in 1..(i - 1) : last.trace[j].result # "LockError"

\* The layer in which the key of a round is: the layer of the call, or the
\* value of the key above it
LayerAt(layer, path) ==
    IF path = <<>> THEN layer
    ELSE LET i == CHOOSE i \in 1..Len(layer.items) : layer.items[i].key = path[1]
         IN IF Len(path) = 1 THEN layer.items[i].val
            ELSE LET j == CHOOSE j \in 1..Len(layer.items[i].val.items) :
                              layer.items[i].val.items[j].key = path[2]
                 IN layer.items[i].val.items[j].val

\* C25: when a merge of a layer of plain keys raises LockError at a key,
\* every key of the layer of that key with a smaller true key had its round
\* before, and what the rounds that returned wrote is in the tree and in the
\* provenance, with the source of the call; the keys with a greater true key
\* have no round, and the tree and the provenance are as the failing key
\* found them; and merge_order is as before the call.
C25_LockErrorKeepsEarlierKeys ==
    /\ last.op = "merge" /\ last.err = "LockError" /\ PlainLayer(last.args.data)
    /\ Len(last.trace[RaisedAt].key_path) <= 2
    => /\ \A i \in 1..Len(LayerAt(last.args.data,
                                   Front(last.trace[RaisedAt].key_path)).items) :
             LET k == LayerAt(last.args.data,
                              Front(last.trace[RaisedAt].key_path)).items[i].key
                 p == Front(last.trace[RaisedAt].key_path) \o <<k>>
             IN /\ StrLess(k, last.trace[RaisedAt].sk.true_key) =>
                      \E j \in 1..(RaisedAt - 1) :
                          /\ last.trace[j].key_path = p
                          /\ last.trace[j].result = "ok"
                /\ StrLess(last.trace[RaisedAt].sk.true_key, k) =>
                      \A x \in Rounds : x.key_path # p
       /\ \A x \in Rounds : x.result = "ok" =>
             /\ Lookup(_data, x.key_path) = x.new
             /\ ListOf(_sources, x.key_path) = <<x.name>>
       /\ \A j \in (RaisedAt + 1)..Len(last.trace) :
             /\ last.trace[j].result = "LockError"
             /\ IsPrefix(last.trace[j].key_path, last.trace[RaisedAt].key_path)
       /\ _data = last.trace[RaisedAt].pre.data
       /\ _sources = last.trace[RaisedAt].pre.sources
       /\ _merge_order = last.pre.merge_order

\* C25 witness: the merge of a, b and c raised LockError at b; a was written
\* by the call, c was not, and the call is not in merge_order
C25_Witness ==
    /\ last.op = "merge" /\ last.err = "LockError"
    /\ last.trace[RaisedAt].key_path = <<B>>
    /\ Len(last.args.data.items) = 3
    /\ Lookup(last.pre.data, <<A>>) = Missing
    /\ Lookup(_data, <<A>>) = PyInt(1)
    /\ ListOf(_sources, <<A>>) = <<ToString(Len(_merge_order))>>
    /\ Lookup(_data, <<Cc>>) = Missing
    /\ _merge_order = last.pre.merge_order

\* The nested key in the copy of a nested key of the tree: each segment has
\* the lock symbol in front exactly when the path up to it is an active lock
Renamed(locked, q) ==
    [i \in 1..Len(q) |->
        IF SubSeq(q, 1, i) \in locked THEN <<lock_symbol>> \o q[i] ELSE q[i]]

LastSource(self, path) ==
    IF path \notin DOMAIN self.sources THEN NoName
    ELSE IF self.cls = "AdvancedConfiguration"
        THEN (IF self.sources[path] = <<>> THEN NoName
              ELSE self.sources[path][Len(self.sources[path])])
    ELSE self.sources[path]

\* The second merge of the layer returned, left the tree of the first, and
\* is the last source of every leaf of the layer
SameAgain(out, layer) ==
    /\ out.err = ""
    /\ out.self.data = _data
    /\ \A l \in LayerLeaves(layer, <<>>) :
          LastSource(out.self, l.path)
            = out.self.merge_order[Len(out.self.merge_order)]

\* C27: after a merge of a layer of plain keys that returned, a second merge
\* of the same layer returns with the same tree, and the source of the second
\* merge is the last source of every leaf of the layer.
C27_PlainMergeIdempotent ==
    last.op = "merge" /\ last.err = "" /\ PlainLayer(last.args.data) =>
        SameAgain(merge(Self, Registry, last.args.data, last.args.name),
                  last.args.data)

\* The rounds of the last merge for one nested key with different action
\* symbols are in the order of their symbols in the ordering of the class
InOrderingOrder ==
    \A i, j \in 1..Len(last.trace) :
        /\ last.trace[i].key_path = last.trace[j].key_path
        /\ last.trace[i].sk.action # "" /\ last.trace[j].sk.action # ""
        /\ IndexOf(_ordering, last.trace[i].sk.action, 1)
              < IndexOf(_ordering, last.trace[j].sk.action, 1)
        => i < j

\* The keys of a layer, separated
SeparatedKeys(layer) ==
    {_separate(recompile(_modifiers, _actions), layer.items[n].key) :
        n \in 1..Len(layer.items)}

\* C28: when a merge layer holds keys with the same true key and different
\* action symbols, all of them in the ordering of the class as the last
\* set_ordering left it, the keys are applied, and the one whose action symbol
\* comes first in the ordering is applied first.
C28_ActionsInOrdering ==
    /\ last.op = "merge" /\ cls = "AdvancedConfiguration"
    /\ \A k \in SeparatedKeys(last.args.data) :
          k # NoMatch /\ k.action # "" /\ InSeq(k.action, _ordering)
            /\ \A i \in 1..Len(k.modifiers) : InSeq(k.modifiers[i], _ordering)
    => /\ InOrderingOrder
       /\ \E r \in Rounds : r.sk \in SeparatedKeys(last.args.data)

\* C28, the order alone: whenever the keys of a layer were applied, they were
\* applied in the order of their action symbols
C28_OrderOfThoseApplied ==
    last.op = "merge" /\ cls = "AdvancedConfiguration" => InOrderingOrder

\* C28 witness: after set_ordering put - before +, a merge of +a and -a
\* applied -a first and +a second
C28_Witness ==
    /\ last.op = "merge" /\ last.err = ""
    /\ IndexOf(_ordering, "-", 1) < IndexOf(_ordering, "+", 1)
    /\ IndexOf(_ordering, "-", 1) > 0
    /\ Len(last.trace) = 2
    /\ last.trace[1].sk.action = "-" /\ last.trace[2].sk.action = "+"
    /\ last.trace[1].key_path = last.trace[2].key_path

\* C29: a lock that a key of a merge layer asks for is not in force during
\* the call: a merge raises LockError only at a nested key that was locked
\* before the call, a key without action that had its round wrote its leaf,
\* the active locks are those of before the call when the call raised, and
\* when it returned they are those and the staged ones, among them the nested
\* key of every key with the lock symbol that had its round.
C29_LocksWaitForTheCall ==
    last.op = "merge" /\ cls = "AdvancedConfiguration" =>
        /\ last.err = "LockError" =>
              last.trace[RaisedAt].key_path \in last.pre.locked
        /\ \A r \in Rounds :
              r.result = "ok" /\ r.sk.action = "" /\ ~IsDict(r.new) =>
                  Lookup(r.post.data, r.key_path) = r.new
        /\ last.err # "" => _locked = last.pre.locked
        /\ last.err = "" =>
              /\ _locked = last.pre.locked \cup last.trace[Len(last.trace)].post.pending
              /\ \A r \in Rounds :
                    r.sk.lock # "" /\ r.result = "ok" => r.key_path \in _locked

\* C29 witness: the merge of {'#a': {'b': 2}} wrote a.b beneath the branch
\* that asks for the lock, and a is locked after the call and was not before
C29_Witness ==
    /\ last.op = "merge" /\ last.err = "" /\ cls = "AdvancedConfiguration"
    /\ Len(last.trace) = 2
    /\ last.trace[1].key_path = <<A, B>> /\ last.trace[1].result = "ok"
    /\ last.trace[2].key_path = <<A>> /\ last.trace[2].sk.lock = "#"
    /\ Lookup(_data, <<A, B>>) = PyInt(2)
    /\ <<A>> \in _locked /\ <<A>> \notin last.pre.locked

\* The nested keys to which the call that led to the next state was
\* addressed: the key of a set, the nested keys of the rounds of a merge
Addressed ==
    IF last'.op = "set" THEN {last'.args.key}
    ELSE {last'.trace[i].key_path : i \in 1..Len(last'.trace)}

\* C30: a nested key that is in the active locks and holds a value holds
\* the same value after any merge and any set, whatever nested key the call
\* was addressed to.
C30_LockedValueKept ==
    [][cls = "AdvancedConfiguration" /\ last'.op \in {"merge", "set"} =>
          \A p \in _locked :
              Lookup(_data, p) # Missing => Lookup(_data', p) = Lookup(_data, p)]_vars

\* C30, for the calls that are not addressed to a nested key above a locked
\* one: the value at the locked nested key is kept
C30_KeptUnlessAddressedAbove ==
    [][cls = "AdvancedConfiguration" /\ last'.op \in {"merge", "set"} =>
          \A p \in _locked :
              /\ Lookup(_data, p) # Missing
              /\ \A q \in Addressed : q = p \/ ~IsPrefix(q, p)
              => Lookup(_data', p) = Lookup(_data, p)]_vars

\* The identifiers in a provenance
IdentifiersOf(srcs) ==
    IF cls = "AdvancedConfiguration"
    THEN UNION {{srcs[k][i] : i \in 1..Len(srcs[k])} : k \in DOMAIN srcs}
    ELSE {srcs[k] : k \in DOMAIN srcs}

\* C31: in every state, after calls that returned and calls that raised,
\* every identifier in the provenance of a nested key is in merge_order, and
\* sources() does not raise.
C31_SourcesKnowEveryIdentifier ==
    /\ \A s \in IdentifiersOf(_sources) : InSeq(s, _merge_order)
    /\ ~sources_raises(Self)

\* C31, for the calls that returned: the identifiers that the call put in
\* the provenance are in merge_order
C31_ReturnedCallsAreKnown ==
    last.err = "" =>
        \A s \in IdentifiersOf(_sources) \ IdentifiersOf(last.pre.sources) :
            InSeq(s, _merge_order)

\* The rounds of the last merge that wrote a leaf where the tree held a
\* branch
Replacing ==
    {r \in Rounds :
        r.result = "ok" /\ r.sk.action = "" /\ IsDict(r.existing) /\ ~IsDict(r.new)}

\* C32: when a round of a merge replaces the branch at a nested key p by a
\* leaf, every nested key with provenance that is neither p nor beneath p
\* keeps its provenance, also one whose name starts with the name of p.
C32_ReplacingKeepsOtherSources ==
    last.op = "merge" =>
        \A r \in Replacing :
            \A q \in DOMAIN r.pre.sources :
                ~IsPrefix(r.key_path, q) =>
                    /\ q \in DOMAIN r.post.sources
                    /\ r.post.sources[q] = r.pre.sources[q]

\* C32, for the nested keys whose name does not start with the name of p
C32_KeptUnlessNameStartsAlike ==
    last.op = "merge" =>
        \A r \in Replacing :
            \A q \in DOMAIN r.pre.sources :
                ~StartsWith(PathStr(q), PathStr(r.key_path)) =>
                    /\ q \in DOMAIN r.post.sources
                    /\ r.post.sources[q] = r.pre.sources[q]

\* The lists of the caller that are not as they were when they were passed
Altered(lists) == {<<e.was, e.now>> : e \in {x \in lists : x.now # x.was}}

\* C33: in every state, every list of a layer that the caller passed to the
\* constructor, to from_dicts or to merge holds what it held when it was
\* passed, whatever calls came after.
C33_PassedLayersKept ==
    \A e \in passed : e.now = e.was

\* C33, for the calls that do not subtract from a list: set, from the tree's
\* side, and every merge whose rounds call no _subtract on a list leave the
\* lists of the caller as they are
C33_KeptUnlessSubtracted ==
    [][(\A i \in 1..Len(last'.trace) :
            ~(/\ last'.trace[i].sk.action # ""
              /\ _actions[last'.trace[i].sk.action] = "_subtract"
              /\ last'.trace[i].existing.t = "list"))
        => Altered(passed') \subseteq Altered(passed)]_vars
=============================================================================
